---- MODULE Spec2Model ----
(***************************************************************************)
(* TypescriptDefinitionGenerator of java-bridge                            *)
(* (ts-src/TypescriptDefinitionGenerator.ts) and the loop of the           *)
(* java-ts-gen command line around it.                                     *)
(*                                                                         *)
(* Spec      the recursive generate() of one root class.  Every await of   *)
(*           the source is a program point (the field pc of the frame on   *)
(*           top of the call stack); the answers of the foreign runtime    *)
(*           (the reflection calls) are drawn from small sets when the     *)
(*           call completes.                                               *)
(* LiveSpec  Spec with weak fairness of the event loop (a pending promise  *)
(*           is settled, a runnable continuation runs).                    *)
(* PathSpec  getPath (the relative import path) and the file path of       *)
(*           save(), on class names spelled as sequences of characters.    *)
(* TypeSpec  one call of javaTypeToTypescriptType: the type node it        *)
(*           returns and the references it registers, for every type name, *)
(*           position and nullability mode.                                *)
(* ClassSpec the conversion of the members of one class (convertFields,    *)
(*           convertMethods and convertMethod, convertConstructors) to the *)
(*           declarations of the module, member by member.                 *)
(* CliSpec   the handler of the command: generate() and save() of each     *)
(*           root in turn, every step able to fail, and the exit status.   *)
(* CliLiveSpec  CliSpec with weak fairness of the handler's steps.         *)
(* AgainSpec Spec with a caller that, after generate() rejected, calls     *)
(*           generate() of a new generator with the same resolved list.    *)
(* FieldSpec the fields of one class from getFields() through the filter   *)
(*           by name to convertFields, for every list of fields.           *)
(* ConcurrentSpec  two generate() calls on one resolved list, interleaved  *)
(*           at every await.                                               *)
(***************************************************************************)
EXTENDS Naturals, Sequences, FiniteSets, TLC

\* ------------------------------------------------------------- bounds
\* most fields a class reports (getFields)
MaxFields == 1
\* most methods a class reports (getMethods)
MaxMethods == 1
\* most constructors a class reports (getDeclaredConstructors)
MaxConstructors == 1
\* most parameters of a method or constructor (getParameterTypes)
MaxParams == 2
\* most members the foreign runtime reports as public during one run
MaxPublic == 2
\* most dot-separated segments of a class name (PathSpec)
MaxSegments == 3
\* most members (fields, methods and constructors together) of the class
\* whose conversion ClassSpec follows
MaxDeclared == 2

\* the root class names of one command, and the classes one root discovers
MaxRoots == 2

MaxDiscovered == 2

\* most fields cls.getFields() answers (FieldSpec)
MaxFieldList == 3

\* the generate() calls that run at once on one resolved list, and the most
\* entries of the additionalImports of one generator (ConcurrentSpec)
MaxCalls == 2

MaxImports == 2

\* ------------------------------------------------ sequences (Array)
Range(s) == {s[k] : k \in 1..Len(s)}

\* Array.prototype.includes
Includes(s, x) == \E k \in 1..Len(s) : s[k] = x

\* Array.prototype.indexOf, 1-based; 0 when absent
IndexOf(s, x) ==
    IF Includes(s, x) THEN CHOOSE k \in 1..Len(s) : s[k] = x /\ \A j \in 1..(k - 1) : s[j] # x
    ELSE 0

\* self.indexOf(value) === index, used as a filter
RECURSIVE UniqueFrom(_, _)
UniqueFrom(s, k) ==
    IF k > Len(s) THEN <<>>
    ELSE (IF IndexOf(s, s[k]) = k THEN <<s[k]>> ELSE <<>>) \o UniqueFrom(s, k + 1)

unique(s) == UniqueFrom(s, 1)

\* res.push(...generated) over a list of lists
RECURSIVE Flatten(_)
Flatten(ss) == IF ss = <<>> THEN <<>> ELSE Head(ss) \o Flatten(Tail(ss))

\* all sequences over S of length at most n
RECURSIVE SeqsUpTo(_, _)
SeqsUpTo(S, n) ==
    IF n = 0 THEN {<<>>}
    ELSE LET shorter == SeqsUpTo(S, n - 1)
         IN  shorter \cup {Append(s, x) : s \in {t \in shorter : Len(t) = n - 1}, x \in S}

\* ------------------------------------------------------ foreign names
\* the root class of the run (the classname of the first generator)
RootClass == "a.A"

\* the classes the foreign runtime can load
ClassNames == {"a.A", "a.B", "java.lang.Integer"}

\* what getTypeName() answers for the type of a field
FieldTypeNames == {"int"}

\* what getTypeName() answers for a return type
ReturnTypeNames == {"void"}

\* what getTypeName() answers for a parameter type of a method
ParameterTypeNames == {"a.B", "int"}

\* what getTypeName() answers for a parameter type of a constructor
ConstructorParameterTypeNames == {"a.A"}

\* what getNameSync()/getName() answer for a field, and getName() for a method
FieldNames == {"f"}
MethodNames == {"m"}

\* javaType.endsWith('[]') and javaType.substring(0, javaType.length - 2)
ArrayTypeNames == {"a.A[]", "a.B[]", "int[]", "byte[]", "java.lang.Byte[]"}
endsWithBrackets(javaType) == javaType \in ArrayTypeNames
elementType(javaType) ==
    CASE javaType = "a.A[]" -> "a.A"
      [] javaType = "a.B[]" -> "a.B"
      [] javaType = "int[]" -> "int"
      [] javaType = "byte[]" -> "byte"
      [] javaType = "java.lang.Byte[]" -> "java.lang.Byte"
      [] OTHER -> javaType

primitiveToClassType(type) ==
    CASE type = "boolean" -> "java.lang.Boolean"
      [] type = "byte" -> "java.lang.Byte"
      [] type = "char" -> "java.lang.Character"
      [] type = "short" -> "java.lang.Short"
      [] type = "int" -> "java.lang.Integer"
      [] type = "long" -> "java.lang.Long"
      [] type = "float" -> "java.lang.Float"
      [] type = "double" -> "java.lang.Double"
      [] OTHER -> type

\* the cases of the second switch that end in createUnion(...)
UnionTypeNames ==
    {"int", "java.lang.Integer", "float", "java.lang.Float", "double", "java.lang.Double",
     "byte", "java.lang.Byte", "short", "java.lang.Short", "long", "java.lang.Long",
     "boolean", "java.lang.Boolean"}

\* the cases of the second switch that make no type reference
KeywordTypeNames ==
    {"char", "java.lang.Character", "java.lang.String", "void", "java.lang.Void",
     "java.lang.Object"}

\* The names javaTypeToTypescriptType(javaType, isParam) hands to
\* createTypeReferenceNode, in call order.
RECURSIVE typeReferences(_, _)
typeReferences(javaType, isParam) ==
    IF javaType \in {"byte[]", "java.lang.Byte[]"} THEN <<>>
    ELSE IF endsWithBrackets(javaType) THEN typeReferences(elementType(javaType), isParam)
    ELSE IF javaType \in UnionTypeNames
         THEN (IF isParam THEN <<primitiveToClassType(javaType)>> ELSE <<>>)
    ELSE IF javaType \in KeywordTypeNames THEN <<>>
    ELSE <<javaType>>

\* createTypeReferenceNode's two pushes, for each name of names in turn:
\* additionalImports gets the name unless resolvedImports includes it,
\* importsToResolve gets it always.
RECURSIVE register(_, _, _)
register(gen, names, resolved) ==
    IF names = <<>> THEN gen
    ELSE register(
            [gen EXCEPT
                !.additionalImports =
                    IF Includes(resolved, Head(names)) THEN @ ELSE Append(@, Head(names)),
                !.importsToResolve = Append(@, Head(names))],
            Tail(names), resolved)

\* The references of createMethod(m, ...): the return type (not a parameter),
\* then convertParameters(m).
RECURSIVE parameterReferences(_)
parameterReferences(parameters) ==
    IF parameters = <<>> THEN <<>>
    ELSE typeReferences(Head(parameters), TRUE) \o parameterReferences(Tail(parameters))

createMethod(m) == typeReferences(m.returnType, FALSE) \o parameterReferences(m.parameters)

\* convertMethod(method, name): createMethod twice (async, then sync) per overload
RECURSIVE convertMethod(_)
convertMethod(method) ==
    IF method = <<>> THEN <<>>
    ELSE createMethod(Head(method)) \o createMethod(Head(method)) \o convertMethod(Tail(method))

\* for (const [key, method] of Object.entries(convertedMethods)) ...
RECURSIVE convertedMethodsReferences(_)
convertedMethodsReferences(groups) ==
    IF groups = <<>> THEN <<>>
    ELSE convertMethod(Head(groups).decls) \o convertedMethodsReferences(Tail(groups))

\* result[name].push(data) or result[name] = [data]
addMethod(groups, name, data) ==
    IF \E k \in 1..Len(groups) : groups[k].name = name
    THEN [k \in 1..Len(groups) |->
            IF groups[k].name = name
            THEN [groups[k] EXCEPT !.decls = Append(@, data)]
            ELSE groups[k]]
    ELSE Append(groups, [name |-> name, decls |-> <<data>>])

\* the synchronous tail of convertConstructors: tsConstructors (the parameters of
\* each constructor), then newInstanceMethods (createMethod with returnType
\* this.classname)
RECURSIVE constructorParameterReferences(_)
constructorParameterReferences(types) ==
    IF types = <<>> THEN <<>>
    ELSE parameterReferences(Head(types)) \o constructorParameterReferences(Tail(types))

RECURSIVE newInstanceReferences(_, _)
newInstanceReferences(types, classname) ==
    IF types = <<>> THEN <<>>
    ELSE createMethod([returnType |-> classname, parameters |-> Head(types)])
            \o newInstanceReferences(Tail(types), classname)

convertConstructorsReferences(types, classname) ==
    constructorParameterReferences(types) \o newInstanceReferences(types, classname)

\* an import list of the classes the generator is going to generate only
getAdditionalImportsUnresolved(gen) ==
    unique(SelectSeq(gen.additionalImports, LAMBDA i : i # gen.classname))

\* getAdditionalImports: the imported names, in order
getAdditionalImports(gen) ==
    unique(SelectSeq(gen.importsToResolve, LAMBDA i : i # gen.classname))

\* fields.filter(onlyUnique): the first field of each name
onlyUnique(fields) == unique(fields)

\* -------------------------------------------------------------- state
VARIABLES
    stack,            \* the generators whose generate() is running, the root first
    resolvedImports,  \* the list shared by all generators of the run
    progressCallback, \* whether a progress callback was supplied
    events,           \* what the run did to the outside, in order: <<kind, class name>>
    inflight,         \* asynchronous calls into the foreign runtime issued, not yet settled
    outcome,          \* "idle", "running", "returned" or "failed": the root generate()
    result,           \* the list the root generate() returned
    error,            \* the class whose import rejected the root generate()
    publicMembers,    \* members the foreign runtime has reported as public
    importing,        \* PathSpec: this.classname of the generator that emits an import
    imported,         \* PathSpec: the class it imports
    importPath,       \* PathSpec: the module specifier of the import declaration
    written,          \* PathSpec: the files save() has written: [name, filePath]
    mapped,           \* TypeSpec: one call of javaTypeToTypescriptType and its value
    generator,        \* TypeSpec, ClassSpec: the lists of the generator that converts
    phase,            \* ClassSpec: how far the conversion of the class has come
    reflected,        \* ClassSpec: what the foreign runtime has answered about the class
    convertedMethods, \* ClassSpec: the result of convertMethods, by method name
    classMembers,     \* ClassSpec: the members of the declared class
    exportMembers,    \* ClassSpec: the members of the exported class
    classnames,       \* CliSpec: the root classes not yet converted
    cli,              \* CliSpec: the position of the command's handler
    declarations,     \* CliSpec: the modules save() has still to write
    storage,          \* CliSpec: the files written, in order
    exit              \* CliSpec: the exit status and what was reported before it

genVars == <<stack, resolvedImports, progressCallback, events, inflight, outcome, result,
             error, publicMembers>>

pathVars == <<importing, imported, importPath, written>>

classVars == <<generator, phase, reflected, convertedMethods, classMembers, exportMembers>>

cliVars == <<classnames, cli, declarations, storage, exit>>

unitVars == <<mapped, classVars, cliVars>>

vars == <<stack, resolvedImports, progressCallback, events, inflight, outcome, result,
          error, publicMembers, importing, imported, importPath, written,
          mapped, generator, phase, reflected, convertedMethods, classMembers, exportMembers,
          classnames, cli, declarations, storage, exit>>

\* new TypescriptDefinitionGenerator(classname, progressCallback, resolvedImports),
\* suspended at its first await
Generator(classname) ==
    [classname |-> classname,
     pc |-> "importClass",
     additionalImports |-> <<>>,
     importsToResolve |-> <<>>,
     fields |-> <<>>,
     methods |-> 0,
     constructors |-> 0,
     typeName |-> "",
     name |-> "",
     returnType |-> "",
     parameters |-> <<>>,
     result |-> <<>>,
     types |-> <<>>,
     isAbstractOrInterface |-> FALSE,
     sourceText |-> [imports |-> <<>>, references |-> {}],
     i |-> 1,
     res |-> <<>>,
     generated |-> <<>>]

Top == stack[Len(stack)]

At(pc) == outcome = "running" /\ stack # <<>> /\ Top.pc = pc

Goto(gen) == stack' = [stack EXCEPT ![Len(stack)] = gen]

\* a mutant of settled: the continuation runs although the call it follows
\* was not awaited
notAwaited(calls) == calls

\* await: the continuation runs when the awaited call has settled
settled(calls) == calls - 1

\* one call settles, one is issued
Next1 == inflight' = settled(inflight) + 1

Steady ==
    /\ UNCHANGED <<resolvedImports, progressCallback, events, outcome, result, error>>
    /\ UNCHANGED pathVars
    /\ UNCHANGED unitVars

Frame == Steady /\ UNCHANGED publicMembers

\* what Modifier.isPublic(modifiers) can answer, and the count of the answers
IsPublicAnswers == IF publicMembers < MaxPublic THEN BOOLEAN ELSE {FALSE}
Reported(isPublic) == publicMembers' = publicMembers + (IF isPublic THEN 1 ELSE 0)

\* no generator yet: const resolvedImports: string[] = []
GenInit ==
    /\ stack = <<>>
    /\ resolvedImports = <<>>
    /\ events = <<>>
    /\ inflight = 0
    /\ outcome = "idle"
    /\ result = <<>>
    /\ error = ""
    /\ publicMembers = 0

\* no import declaration, no file
PathIdle ==
    /\ importing = <<>>
    /\ imported = <<>>
    /\ importPath = <<>>
    /\ written = {}

\* no type mapped, no class converted, no command run
UnitIdle ==
    /\ mapped = <<>>
    /\ generator = <<>>
    /\ phase = ""
    /\ reflected = <<>>
    /\ convertedMethods = <<>>
    /\ classMembers = <<>>
    /\ exportMembers = <<>>
    /\ classnames = <<>>
    /\ cli = ""
    /\ declarations = <<>>
    /\ storage = <<>>
    /\ exit = <<>>

Init ==
    /\ GenInit
    /\ progressCallback \in BOOLEAN
    /\ PathIdle
    /\ UnitIdle

\* ------------------------------------------------- generate(): prologue
\* a generate() call is about to be made: by the caller of the root generator,
\* or by the loop over additionalImports of the generator on top
Calling ==
    \/ outcome = "idle"
    \/ At("loop") /\ Top.i <= Len(Top.additionalImports)

Callee == IF outcome = "idle" THEN RootClass ELSE Top.additionalImports[Top.i]

\* a mutant of isResolved: only the class resolved last is recognised
isResolvedLast(resolved, classname) ==
    resolved # <<>> /\ resolved[Len(resolved)] = classname

\* if (this.resolvedImports.includes(this.classname))
isResolved(resolved, classname) == Includes(resolved, classname)

\* a mutant of markResolved: the class is not marked when its processing begins
markResolvedLater(resolved, classname) == resolved

\* this.resolvedImports.push(this.classname)
markResolved(resolved, classname) == Append(resolved, classname)

\* a mutant of enterEvents: the callback is called when the import was issued
enterEventsLate(classname, callback) ==
    <<<<"resolved", classname>>, <<"import", classname>>>>
        \o (IF callback THEN <<<<"progress", classname>>>> ELSE <<>>)

\* the prologue after the check: push, callback, then the import is issued
enterEvents(classname, callback) ==
    <<<<"resolved", classname>>>>
        \o (IF callback THEN <<<<"progress", classname>>>> ELSE <<>>)
        \o <<<<"import", classname>>>>

\* mutants of pushGenerated: the sub-result is dropped; it is put in front
pushGeneratedDropped(res, generated) == res
pushGeneratedFirst(res, generated) == generated \o res

\* res.push(...generated) in the caller, whose await generator.generate() resumes
pushGenerated(res, generated) == res \o generated

\* the value of a generate() call reaches its caller
Deliver(callers, value) ==
    IF callers = <<>>
    THEN /\ stack' = <<>>
         /\ outcome' = "returned"
         /\ result' = value
    ELSE /\ stack' = [callers EXCEPT ![Len(callers)] =
                         [@ EXCEPT !.res = pushGenerated(@, value),
                                   !.generated = Append(@, value),
                                   !.i = @ + 1]]
         /\ UNCHANGED <<outcome, result>>

GenerateResolved ==
    /\ Calling
    /\ isResolved(resolvedImports, Callee)
    /\ Deliver(stack, <<>>)
    /\ UNCHANGED <<resolvedImports, progressCallback, events, inflight, error, publicMembers, pathVars, unitVars>>

GenerateEnter ==
    /\ Calling
    /\ ~isResolved(resolvedImports, Callee)
    /\ resolvedImports' = markResolved(resolvedImports, Callee)
    /\ events' = events \o enterEvents(Callee, progressCallback)
    /\ stack' = Append(stack, Generator(Callee))
    /\ inflight' = inflight + 1
    /\ outcome' = "running"
    /\ UNCHANGED <<progressCallback, result, error, publicMembers, pathVars, unitVars>>

\* a mutant of propagate: the loop of the caller catches the rejection and goes
\* on with the next import
propagateCaught(callers) ==
    IF callers = <<>> THEN <<>>
    ELSE [callers EXCEPT ![Len(callers)] = [@ EXCEPT !.i = @ + 1, !.generated = Append(@, <<>>)]]

\* the generators still running after the generate() of the callee rejected:
\* const generated = await generator.generate() stands in no try block, so
\* every caller rejects in turn
propagate(callers) == <<>>

\* await importClassAsync(this.classname) rejects
ImportClassFails ==
    /\ At("importClass")
    /\ stack' = propagate(SubSeq(stack, 1, Len(stack) - 1))
    /\ outcome' = IF stack' = <<>> THEN "failed" ELSE outcome
    /\ error' = Top.classname
    /\ inflight' = settled(inflight)
    /\ UNCHANGED <<resolvedImports, progressCallback, events, result, publicMembers, pathVars, unitVars>>

\* Class.class is at hand; (await cls.getFields()) is issued
ImportClass ==
    /\ At("importClass")
    /\ Goto([Top EXCEPT !.pc = "getFields"])
    /\ Next1
    /\ Frame

\* ------------------------------------------------- generate(): epilogue
\* { name: this.classname, contents: sourceText }
Module(gen) == [name |-> gen.classname, contents |-> gen.sourceText]

\* a mutant of returnValue: the module of the class comes first
returnValueFirst(gen) == <<Module(gen)>> \o gen.res

\* res.push({name, contents}); return res
returnValue(gen) == Append(gen.res, Module(gen))

Return ==
    /\ At("loop")
    /\ Top.i > Len(Top.additionalImports)
    /\ Deliver(SubSeq(stack, 1, Len(stack) - 1), returnValue(Top))
    /\ UNCHANGED <<resolvedImports, progressCallback, events, inflight, error, publicMembers, pathVars, unitVars>>

\* --------------------------------------------- generate(): the members
\* calls issued by the code that runs when the call awaited at pc settles
Issued(gen) == IF gen.pc = "loop" THEN 0 ELSE 1

\* Promise.all(parameterTypes.map((p) => p.getTypeName())): n calls at once
Pending(n) == [k \in 1..n |-> "?"]
IsPending(parameters) == \E k \in 1..Len(parameters) : parameters[k] = "?"

\* const fields = (await cls.getFields()).filter(onlyUnique); cls.getMethods() is issued
GetFields ==
    /\ At("getFields")
    /\ \E fields \in SeqsUpTo(FieldNames, MaxFields) :
          Goto([Top EXCEPT !.fields = onlyUnique(fields), !.pc = "getMethods"])
    /\ Next1
    /\ Frame

\* const methods = await cls.getMethods(); convertFields(fields) imports Modifier
GetMethods ==
    /\ At("getMethods")
    /\ \E methods \in 0..MaxMethods :
          Goto([Top EXCEPT !.methods = methods, !.pc = "cf.Modifier"])
    /\ Next1
    /\ Frame

\* for (const field of fields): the next field, or convertFields returns and
\* convertMethods(methods) imports Modifier
fieldLoop(gen) ==
    IF gen.fields # <<>>
    THEN [gen EXCEPT !.pc = "cf.getModifiers"]
    ELSE [gen EXCEPT !.pc = "cm.Modifier", !.typeName = ""]

FieldsModifier ==
    /\ At("cf.Modifier")
    /\ Goto(fieldLoop(Top))
    /\ Next1
    /\ Frame

FieldGetModifiers ==
    /\ At("cf.getModifiers")
    /\ Goto([Top EXCEPT !.pc = "cf.isPublic"])
    /\ Next1
    /\ Frame

\* if (await Modifier.isPublic(modifiers))
FieldIsPublic ==
    /\ At("cf.isPublic")
    /\ \E isPublic \in IsPublicAnswers :
          /\ Goto(IF isPublic
                  THEN [Top EXCEPT !.pc = "cf.getName"]
                  ELSE fieldLoop([Top EXCEPT !.fields = Tail(@)]))
          /\ Reported(isPublic)
    /\ Next1
    /\ Steady

FieldGetName ==
    /\ At("cf.getName")
    /\ Goto([Top EXCEPT !.pc = "cf.getType"])
    /\ Next1
    /\ Frame

FieldGetType ==
    /\ At("cf.getType")
    /\ Goto([Top EXCEPT !.pc = "cf.getTypeName"])
    /\ Next1
    /\ Frame

FieldGetTypeName ==
    /\ At("cf.getTypeName")
    /\ \E typeName \in FieldTypeNames :
          Goto([Top EXCEPT !.typeName = typeName, !.pc = "cf.isStatic"])
    /\ Next1
    /\ Frame

\* the answers of isStatic and isFinal only choose modifiers of the property
FieldIsStatic ==
    /\ At("cf.isStatic")
    /\ Goto([Top EXCEPT !.pc = "cf.isFinal"])
    /\ Next1
    /\ Frame

\* the type of a field is converted as a parameter (isParam = true)
fieldReferences(typeName) == typeReferences(typeName, TRUE)

\* createPropertyDeclaration(..., this.javaTypeToTypescriptType(typeName, true));
\* then the comment awaits type.getTypeName() once more
FieldIsFinal ==
    /\ At("cf.isFinal")
    /\ Goto([register(Top, fieldReferences(Top.typeName), resolvedImports)
                EXCEPT !.pc = "cf.getTypeName2"])
    /\ Next1
    /\ Frame

\* res.push(...); the loop goes on
FieldCommented ==
    /\ At("cf.getTypeName2")
    /\ Goto(fieldLoop([Top EXCEPT !.fields = Tail(@)]))
    /\ Next1
    /\ Frame

\* for (const method of methods): the next method, or convertMethods returns,
\* generate() converts each group (convertMethod) and isAbstractOrInterface(cls)
\* imports Modifier
methodLoop(gen, resolved) ==
    IF gen.methods > 0
    THEN [gen EXCEPT !.pc = "cm.getModifiers"]
    ELSE [register(gen, convertedMethodsReferences(gen.result), resolved)
            EXCEPT !.pc = "ia.Modifier", !.result = <<>>, !.name = "",
                   !.returnType = "", !.parameters = <<>>]

MethodsModifier ==
    /\ At("cm.Modifier")
    /\ Goto(methodLoop(Top, resolvedImports))
    /\ Next1
    /\ Frame

MethodGetModifiers ==
    /\ At("cm.getModifiers")
    /\ Goto([Top EXCEPT !.pc = "cm.isPublic"])
    /\ Next1
    /\ Frame

MethodIsPublic ==
    /\ At("cm.isPublic")
    /\ \E isPublic \in IsPublicAnswers :
          /\ Goto(IF isPublic
                  THEN [Top EXCEPT !.pc = "cm.getName"]
                  ELSE methodLoop([Top EXCEPT !.methods = @ - 1], resolvedImports))
          /\ Reported(isPublic)
    /\ Next1
    /\ Steady

MethodGetName ==
    /\ At("cm.getName")
    /\ \E name \in MethodNames :
          Goto([Top EXCEPT !.name = name, !.pc = "cm.getReturnType"])
    /\ Next1
    /\ Frame

MethodGetReturnType ==
    /\ At("cm.getReturnType")
    /\ Goto([Top EXCEPT !.pc = "cm.getParameterTypes"])
    /\ Next1
    /\ Frame

\* parameterTypes is at hand; returnType.getTypeName() is issued
MethodGetParameterTypes ==
    /\ At("cm.getParameterTypes")
    /\ \E n \in 0..MaxParams :
          Goto([Top EXCEPT !.parameters = Pending(n), !.pc = "cm.returnTypeName"])
    /\ Next1
    /\ Frame

\* the calls parameterTypes.map((p) => p.getTypeName()) issues before
\* Promise.all is awaited
mapGetTypeName(parameterTypes) == Len(parameterTypes)

\* returnType: await returnType.getTypeName() is at hand; the getTypeName() of
\* every parameter type is issued (none: Modifier.isStatic is)
MethodReturnTypeName ==
    /\ At("cm.returnTypeName")
    /\ \E returnType \in ReturnTypeNames :
          Goto([Top EXCEPT !.returnType = returnType,
                           !.pc = IF Top.parameters = <<>> THEN "cm.isStatic"
                                  ELSE "cm.parameterTypeNames"])
    /\ inflight' = settled(inflight)
                    + (IF Top.parameters = <<>> THEN 1 ELSE mapGetTypeName(Top.parameters))
    /\ Frame

\* one p.getTypeName() settles; when it was the last, Promise.all resolves and
\* Modifier.isStatic(modifiers) is issued
MethodParameterTypeName ==
    /\ At("cm.parameterTypeNames")
    /\ \E k \in 1..Len(Top.parameters), typeName \in ParameterTypeNames :
          /\ Top.parameters[k] = "?"
          /\ LET parameters == [Top.parameters EXCEPT ![k] = typeName]
             IN  /\ Goto([Top EXCEPT !.parameters = parameters,
                                     !.pc = IF IsPending(parameters) THEN @ ELSE "cm.isStatic"])
                 /\ inflight' = settled(inflight) + (IF IsPending(parameters) THEN 0 ELSE 1)
    /\ Frame

\* data is complete: result[name] gets it (isStatic only chooses a modifier of
\* the declarations)
MethodIsStatic ==
    /\ At("cm.isStatic")
    /\ Goto(methodLoop(
            [Top EXCEPT !.result = addMethod(@, Top.name,
                            [returnType |-> Top.returnType,
                             parameters |-> Top.parameters]),
                        !.methods = @ - 1],
            resolvedImports))
    /\ Next1
    /\ Frame

\* ------------------------------ generate(): abstractness, constructors
\* getText([...imports, tsClass, ...export statement]): of the source text the
\* model keeps the names imported and the names its type references name; the
\* loop over additionalImports starts
emit(gen) ==
    [gen EXCEPT !.sourceText = [imports |-> getAdditionalImports(gen),
                                references |-> Range(gen.importsToResolve)],
                !.isAbstractOrInterface = FALSE,
                !.pc = "loop",
                !.i = 1,
                !.types = <<>>,
                !.parameters = <<>>]

\* for (const constructor of constructors): the next constructor, or the
\* synchronous tail of convertConstructors and the rest of generate()
constructorLoop(gen, resolved) ==
    IF gen.constructors > 0
    THEN [gen EXCEPT !.pc = "cc.getModifiers"]
    ELSE emit(register(gen, convertConstructorsReferences(gen.types, gen.classname), resolved))

AbstractModifier ==
    /\ At("ia.Modifier")
    /\ Goto([Top EXCEPT !.pc = "ia.isInterface"])
    /\ Next1
    /\ Frame

\* (await classType.isInterface()) || ...: an interface has no constructors converted
IsInterface ==
    /\ At("ia.isInterface")
    /\ \E isInterface \in BOOLEAN :
          LET gen == IF isInterface
                     THEN emit([Top EXCEPT !.isAbstractOrInterface = TRUE])
                     ELSE [Top EXCEPT !.pc = "ia.getModifiers"]
          IN  /\ Goto(gen)
              /\ inflight' = settled(inflight) + Issued(gen)
    /\ Frame

ClassGetModifiers ==
    /\ At("ia.getModifiers")
    /\ Goto([Top EXCEPT !.pc = "ia.isAbstract"])
    /\ Next1
    /\ Frame

\* if (!isAbstractOrInterface) cls.getDeclaredConstructors() is issued
IsAbstract ==
    /\ At("ia.isAbstract")
    /\ \E isAbstract \in BOOLEAN :
          LET gen == IF isAbstract
                     THEN emit([Top EXCEPT !.isAbstractOrInterface = TRUE])
                     ELSE [Top EXCEPT !.pc = "getDeclaredConstructors"]
          IN  /\ Goto(gen)
              /\ inflight' = settled(inflight) + Issued(gen)
    /\ Frame

\* convertConstructors(constructors) imports Modifier
GetDeclaredConstructors ==
    /\ At("getDeclaredConstructors")
    /\ \E constructors \in 0..MaxConstructors :
          Goto([Top EXCEPT !.constructors = constructors, !.pc = "cc.Modifier"])
    /\ Next1
    /\ Frame

ConstructorsModifier ==
    /\ At("cc.Modifier")
    /\ LET gen == constructorLoop(Top, resolvedImports)
       IN  /\ Goto(gen)
           /\ inflight' = settled(inflight) + Issued(gen)
    /\ Frame

ConstructorGetModifiers ==
    /\ At("cc.getModifiers")
    /\ Goto([Top EXCEPT !.pc = "cc.isPublic"])
    /\ Next1
    /\ Frame

ConstructorIsPublic ==
    /\ At("cc.isPublic")
    /\ \E isPublic \in IsPublicAnswers :
          LET gen == IF isPublic
                     THEN [Top EXCEPT !.pc = "cc.getParameterTypes"]
                     ELSE constructorLoop([Top EXCEPT !.constructors = @ - 1], resolvedImports)
          IN  /\ Goto(gen)
              /\ inflight' = settled(inflight) + Issued(gen)
              /\ Reported(isPublic)
    /\ Steady

\* parameterTypes is at hand; the getTypeName() of every parameter type is
\* issued (none: types gets [] and the loop goes on)
ConstructorGetParameterTypes ==
    /\ At("cc.getParameterTypes")
    /\ \E n \in 0..MaxParams :
          LET gen == IF n = 0
                     THEN constructorLoop(
                            [Top EXCEPT !.types = Append(@, <<>>), !.constructors = @ - 1],
                            resolvedImports)
                     ELSE [Top EXCEPT !.parameters = Pending(n), !.pc = "cc.parameterTypeNames"]
          IN  /\ Goto(gen)
              /\ inflight' = settled(inflight)
                              + (IF n = 0 THEN Issued(gen) ELSE mapGetTypeName(Pending(n)))
    /\ Frame

\* one p.getTypeName() settles; when it was the last, types gets the names
ConstructorParameterTypeName ==
    /\ At("cc.parameterTypeNames")
    /\ \E k \in 1..Len(Top.parameters), typeName \in ConstructorParameterTypeNames :
          /\ Top.parameters[k] = "?"
          /\ LET parameters == [Top.parameters EXCEPT ![k] = typeName]
                 gen == IF IsPending(parameters)
                        THEN [Top EXCEPT !.parameters = parameters]
                        ELSE constructorLoop(
                                [Top EXCEPT !.types = Append(@, parameters),
                                            !.parameters = <<>>,
                                            !.constructors = @ - 1],
                                resolvedImports)
             IN  /\ Goto(gen)
                 /\ inflight' = settled(inflight) + (IF IsPending(parameters) THEN 0 ELSE Issued(gen))
    /\ Frame

\* ------------------------------------------------------ specification
Next ==
    \/ GenerateResolved
    \/ GenerateEnter
    \/ ImportClassFails
    \/ ImportClass
    \/ GetFields
    \/ GetMethods
    \/ FieldsModifier
    \/ FieldGetModifiers
    \/ FieldIsPublic
    \/ FieldGetName
    \/ FieldGetType
    \/ FieldGetTypeName
    \/ FieldIsStatic
    \/ FieldIsFinal
    \/ FieldCommented
    \/ MethodsModifier
    \/ MethodGetModifiers
    \/ MethodIsPublic
    \/ MethodGetName
    \/ MethodGetReturnType
    \/ MethodGetParameterTypes
    \/ MethodReturnTypeName
    \/ MethodParameterTypeName
    \/ MethodIsStatic
    \/ AbstractModifier
    \/ IsInterface
    \/ ClassGetModifiers
    \/ IsAbstract
    \/ GetDeclaredConstructors
    \/ ConstructorsModifier
    \/ ConstructorGetModifiers
    \/ ConstructorIsPublic
    \/ ConstructorGetParameterTypes
    \/ ConstructorParameterTypeName
    \/ Return

Spec == Init /\ [][Next]_vars

\* the event loop settles every pending promise and runs every continuation
LiveSpec == Spec /\ WF_vars(Next)

\* ------------------------------------------- generate() after a failure
\* A caller whose generate() has rejected keeps the resolved list and makes a
\* new generator with it, for any class: Spec and the later calls.

\* new TypescriptDefinitionGenerator(classname, progressCallback,
\* resolvedImports).generate() for a class the list includes: L739-741
GenerateAgainResolved ==
    /\ outcome = "failed"
    /\ \E classname \in ClassNames : isResolved(resolvedImports, classname)
    /\ outcome' = "returned"
    /\ result' = <<>>
    /\ error' = ""
    /\ UNCHANGED <<stack, resolvedImports, progressCallback, events, inflight,
                   publicMembers, pathVars, unitVars>>

\* the same for a class the list does not include: the prologue of generate()
GenerateAgainEnter ==
    /\ outcome = "failed"
    /\ \E classname \in ClassNames :
          /\ ~isResolved(resolvedImports, classname)
          /\ resolvedImports' = markResolved(resolvedImports, classname)
          /\ events' = events \o enterEvents(classname, progressCallback)
          /\ stack' = <<Generator(classname)>>
    /\ inflight' = inflight + 1
    /\ outcome' = "running"
    /\ error' = ""
    /\ UNCHANGED <<progressCallback, result, publicMembers, pathVars, unitVars>>

AgainNext ==
    \/ Next
    \/ GenerateAgainResolved
    \/ GenerateAgainEnter

AgainSpec == Init /\ [][AgainNext]_vars

\* ------------------------------------------------- import paths and files
\* Class names, import paths and file paths are strings: sequences of
\* characters.

SegmentNames == {<<"a">>, <<"b", "c">>}

\* the output directory handed to save()
sourceDir == <<"o", "u", "t">>

\* String.prototype.split(separator), the separator one character
RECURSIVE split(_, _)
split(s, separator) ==
    IF \A k \in 1..Len(s) : s[k] # separator
    THEN <<s>>
    ELSE LET k == CHOOSE k \in 1..Len(s) :
                      /\ s[k] = separator
                      /\ \A l \in 1..(k - 1) : s[l] # separator
         IN  <<SubSeq(s, 1, k - 1)>> \o split(SubSeq(s, k + 1, Len(s)), separator)

\* Array.prototype.join(separator)
RECURSIVE join(_, _)
join(parts, separator) ==
    IF parts = <<>> THEN <<>>
    ELSE IF Len(parts) = 1 THEN parts[1]
    ELSE parts[1] \o separator \o join(Tail(parts), separator)

\* the fully qualified names of classes of one to MaxSegments segments
PathClassNames == {join(segments, <<".">>) : segments \in SeqsUpTo(SegmentNames, MaxSegments) \ {<<>>}}

\* importSplit[j] = null, thisSplit[j] = null
null == <<"null">>

\* e => !!e : neither null nor the empty string
truthy(e) == e # null /\ e # <<>>

\* the for loop of getPath: the leading segments the two names share become
\* null in both, up to the first index where they differ
RECURSIVE nullCommon(_, _, _)
nullCommon(thisSplit, importSplit, j) ==
    IF j > Len(thisSplit) THEN <<thisSplit, importSplit>>
    ELSE IF j <= Len(importSplit) /\ importSplit[j] = thisSplit[j]
    THEN nullCommon([thisSplit EXCEPT ![j] = null], [importSplit EXCEPT ![j] = null], j + 1)
    ELSE <<thisSplit, importSplit>>

\* a mutant of parentSteps: one '../' for every remaining segment
parentStepEach(thisSplit) ==
    Flatten([k \in 1..Len(SelectSeq(thisSplit, truthy)) |-> <<".", ".", "/">>])

\* thisSplit.filter((e) => !!e).map(() => '').join('../')
parentSteps(thisSplit) ==
    join([k \in 1..Len(SelectSeq(thisSplit, truthy)) |-> <<>>], <<".", ".", "/">>)

\* getAdditionalImports.getPath(i)
getPath(classname, i) ==
    LET splits == nullCommon(split(classname, "."), split(i, "."), 1)
    IN  <<".", "/">> \o parentSteps(splits[1])
                     \o join(SelectSeq(splits[2], truthy), <<"/">>)

\* path.join(sourceDir, ...p) in save(): p = name.split('.'), '.ts' appended
\* to its last element; no element is '.', '..' or empty
filePath(name) ==
    LET p == split(name, ".")
        file == [p EXCEPT ![Len(p)] = @ \o <<".", "t", "s">>]
    IN  join(<<sourceDir>> \o file, <<"/">>)

\* path.dirname(filePath)
dirname(path) ==
    LET parts == split(path, "/")
    IN  join(SubSeq(parts, 1, Len(parts) - 1), <<"/">>)

\* a relative path walked from a directory, component by component: '.' and
\* the empty component stay, '..' leaves the directory, a name enters it
RECURSIVE walk(_, _)
walk(directory, components) ==
    IF components = <<>> THEN directory
    ELSE LET c == Head(components)
             next == IF c = <<".">> \/ c = <<>> THEN directory
                     ELSE IF c = <<".", ".">>
                          THEN SubSeq(directory, 1, Len(directory) - 1)
                          ELSE Append(directory, c)
         IN  walk(next, Tail(components))

\* the file an import path denotes, from the directory of the importing file
resolve(directory, path) ==
    join(walk(split(directory, "/"), split(path, "/")), <<"/">>)

\* one generator is about to import a class other than its own:
\* .filter((i) => i != this.classname)
PathInit ==
    /\ GenInit
    /\ progressCallback = FALSE
    /\ importing \in PathClassNames
    /\ imported \in PathClassNames \ {importing}
    /\ importPath = <<>>
    /\ written = {}
    /\ UnitIdle

\* getAdditionalImports: the import declaration of one imported class
GetAdditionalImport ==
    /\ importPath = <<>>
    /\ importPath' = getPath(importing, imported)
    /\ UNCHANGED <<importing, imported, written>>
    /\ UNCHANGED genVars
    /\ UNCHANGED unitVars

\* save(): the file of one declaration
Save(name) ==
    /\ \A file \in written : file.name # name
    /\ written' = written \cup {[name |-> name, filePath |-> filePath(name)]}
    /\ UNCHANGED <<importing, imported, importPath>>
    /\ UNCHANGED genVars
    /\ UNCHANGED unitVars

SaveImporting == Save(importing)

SaveImported == Save(imported)

PathNext ==
    \/ GetAdditionalImport
    \/ SaveImporting
    \/ SaveImported

PathSpec == PathInit /\ [][PathNext]_vars

\* ------------------------------------------------------- the type mapper
\* The characters of a name, in pieces: a dot is a piece of its own, the
\* characters between two dots are one piece.
javaLang(simpleName) == <<"java", ".", "lang", ".", simpleName>>

text(name) ==
    CASE name = "a.A" -> <<"a", ".", "A">>
      [] name = "a.B" -> <<"a", ".", "B">>
      [] name = "java.lang.Boolean" -> javaLang("Boolean")
      [] name = "java.lang.Byte" -> javaLang("Byte")
      [] name = "java.lang.Character" -> javaLang("Character")
      [] name = "java.lang.Short" -> javaLang("Short")
      [] name = "java.lang.Integer" -> javaLang("Integer")
      [] name = "java.lang.Long" -> javaLang("Long")
      [] name = "java.lang.Float" -> javaLang("Float")
      [] name = "java.lang.Double" -> javaLang("Double")
      [] OTHER -> <<name>>

\* String.prototype.lastIndexOf, 1-based; 0 when absent
lastIndexOf(s, c) ==
    IF \E k \in 1..Len(s) : s[k] = c
    THEN CHOOSE k \in 1..Len(s) : s[k] = c /\ \A l \in (k + 1)..Len(s) : s[l] # c
    ELSE 0

\* String.prototype.replaceAll
replaceAll(s, c, replacement) == [k \in 1..Len(s) |-> IF s[k] = c THEN replacement ELSE s[k]]

\* the nodes of ts.factory, all of one shape
KeywordTypeNode(keyword) == [kind |-> "keyword", name |-> <<keyword>>, types |-> <<>>]

LiteralNull == [kind |-> "literal", name |-> <<"null">>, types |-> <<>>]

TypeReferenceNode(identifier, typeArguments) ==
    [kind |-> "reference", name |-> identifier, types |-> typeArguments]

ArrayTypeNode(element) == [kind |-> "array", name |-> <<>>, types |-> <<element>>]

UnionTypeNode(members) == [kind |-> "union", name |-> <<>>, types |-> members]

isPrimitive(type) ==
    type \in {"boolean", "byte", "char", "short", "int", "long", "float", "double"}

\* the cases of the second switch
NumberCases ==
    {"int", "java.lang.Integer", "float", "java.lang.Float", "double", "java.lang.Double",
     "byte", "java.lang.Byte", "short", "java.lang.Short"}

LongCases == {"long", "java.lang.Long"}

StringCases == {"char", "java.lang.Character", "java.lang.String"}

BooleanCases == {"boolean", "java.lang.Boolean"}

VoidCases == {"void", "java.lang.Void"}

\* the fields of a generator that the conversion of members writes
Converter(classname) ==
    [classname |-> classname,
     additionalImports |-> <<>>,
     importsToResolve |-> <<>>,
     usesBasicOrJavaType |-> FALSE]

\* createType
createType(type, strictNullTypes) ==
    IF strictNullTypes THEN UnionTypeNode(<<type, LiteralNull>>) ELSE type

\* a mutant of referenceName: the suffix is put to every name in parameter
\* position
referenceNameSuffixed(classname, name, isParam) ==
    IF name = classname
    THEN SubSeq(text(name), lastIndexOf(text(name), ".") + 1, Len(text(name)))
            \o (IF isParam THEN <<"Class">> ELSE <<>>)
    ELSE replaceAll(text(name), ".", "_") \o (IF isParam THEN <<"Class">> ELSE <<>>)

\* the identifier createTypeReferenceNode makes of a class name
referenceName(classname, name, isParam) ==
    LET isSelf == name = classname /\ isParam
    IN  IF name = classname
        THEN SubSeq(text(name), lastIndexOf(text(name), ".") + 1, Len(text(name)))
                \o (IF isSelf THEN <<"Class">> ELSE <<>>)
        ELSE replaceAll(text(name), ".", "_")

\* createTypeReferenceNode: the node
createTypeReferenceNode(classname, name, isParam) ==
    TypeReferenceNode(referenceName(classname, name, isParam), <<>>)

\* ...additionalTypes.map((t) => createKeywordTypeNode(t)): in the union of
\* the parameter position only
additionalKeywords(additionalTypes, isParam) ==
    IF isParam
    THEN [k \in 1..Len(additionalTypes) |-> KeywordTypeNode(additionalTypes[k])]
    ELSE <<>>

\* createUnion(type, ...additionalTypes): the node
createUnion(classname, javaType, isParam, strictNullTypes, type, additionalTypes) ==
    LET members == <<KeywordTypeNode(type)>>
                      \o (IF ~isPrimitive(javaType) /\ strictNullTypes
                          THEN <<LiteralNull>> ELSE <<>>)
    IN  IF ~isParam
        THEN UnionTypeNode(members)
        ELSE UnionTypeNode(
                 <<createTypeReferenceNode(classname, primitiveToClassType(javaType), isParam)>>
                    \o additionalKeywords(additionalTypes, isParam)
                    \o members)

\* the node javaTypeToTypescriptType(javaType, isParam, strictNullTypes)
\* returns in the generator of classname
RECURSIVE typeNode(_, _, _, _)
typeNode(classname, javaType, isParam, strictNullTypes) ==
    IF javaType \in {"byte[]", "java.lang.Byte[]"}
    THEN createType(TypeReferenceNode(<<"Buffer">>, <<>>), strictNullTypes)
    ELSE IF endsWithBrackets(javaType)
    THEN createType(ArrayTypeNode(typeNode(classname, elementType(javaType), isParam, TRUE)),
                    strictNullTypes)
    ELSE IF javaType \in NumberCases
    THEN createUnion(classname, javaType, isParam, strictNullTypes, "number", <<>>)
    ELSE IF javaType \in LongCases
    THEN createUnion(classname, javaType, isParam, strictNullTypes, "number", <<"bigint">>)
    ELSE IF javaType \in StringCases
    THEN createType(KeywordTypeNode("string"), strictNullTypes)
    ELSE IF javaType \in BooleanCases
    THEN createUnion(classname, javaType, isParam, strictNullTypes, "boolean", <<>>)
    ELSE IF javaType \in VoidCases
    THEN KeywordTypeNode("void")
    ELSE IF javaType = "java.lang.Object"
    THEN createType(TypeReferenceNode(<<"BasicOrJavaType">>, <<>>), strictNullTypes)
    ELSE createType(createTypeReferenceNode(classname, javaType, isParam), strictNullTypes)

\* a mutant of pushes: the references are made and nothing is registered
pushesNothing(gen, names, resolved) == gen

\* the pushes of createTypeReferenceNode for the names it is called with
pushes(gen, names, resolved) == register(gen, names, resolved)

\* javaTypeToTypescriptType(javaType, isParam, strictNullTypes): the node it
\* returns, and the generator after the call (the pushes of
\* createTypeReferenceNode, this.usesBasicOrJavaType = true)
javaTypeToTypescriptType(gen, resolved, javaType, isParam, strictNullTypes) ==
    [type |-> typeNode(gen.classname, javaType, isParam, strictNullTypes),
     gen |-> [pushes(gen, typeReferences(javaType, isParam), resolved)
                 EXCEPT !.usesBasicOrJavaType = @ \/ javaType = "java.lang.Object"]]

\* the type names the mapper is called with
JavaTypeNames == UnionTypeNames \cup KeywordTypeNames \cup ArrayTypeNames \cup {"a.A", "a.B"}

\* the class of the generator whose members are converted
ConvertedClasses == {"a.A", "a.B"}

\* what the run has resolved when the class is converted: the class itself
\* (pushed before its members are converted) and classes resolved before it
ResolvedBefore == {<<>>, <<"java.lang.Integer">>, <<"a.A">>, <<"java.lang.Long", "a.B">>}

\* no node yet
NoType == [kind |-> "none", name |-> <<>>, types |-> <<>>]

\* one call of the mapper is about to be made
TypeInit ==
    /\ stack = <<>>
    /\ resolvedImports \in {unique(Append(before, classname)) :
                               before \in ResolvedBefore, classname \in ConvertedClasses}
    /\ progressCallback = FALSE
    /\ events = <<>>
    /\ inflight = 0
    /\ outcome = "running"
    /\ result = <<>>
    /\ error = ""
    /\ publicMembers = 0
    /\ PathIdle
    /\ generator = Converter(resolvedImports[Len(resolvedImports)])
    /\ mapped \in [javaType : JavaTypeNames, isParam : BOOLEAN, strictNullTypes : BOOLEAN,
                   called : {FALSE}, type : {NoType}]
    /\ phase = ""
    /\ reflected = <<>>
    /\ convertedMethods = <<>>
    /\ classMembers = <<>>
    /\ exportMembers = <<>>
    /\ classnames = <<>>
    /\ cli = ""
    /\ declarations = <<>>
    /\ storage = <<>>
    /\ exit = <<>>

\* this.javaTypeToTypescriptType(javaType, isParam, strictNullTypes)
MapType ==
    /\ ~mapped.called
    /\ LET value == javaTypeToTypescriptType(generator, resolvedImports, mapped.javaType,
                                             mapped.isParam, mapped.strictNullTypes)
       IN  /\ mapped' = [mapped EXCEPT !.called = TRUE, !.type = value.type]
           /\ generator' = value.gen
    /\ UNCHANGED genVars
    /\ UNCHANGED pathVars
    /\ UNCHANGED <<phase, reflected, convertedMethods, classMembers, exportMembers, cliVars>>

TypeNext == MapType

TypeSpec == TypeInit /\ [][TypeNext]_vars

\* ------------------------------------------- the members of one class
\* The declarations of ts.factory, all of one shape; comments are left out.
Declaration(kind, modifiers, name, parameters, type) ==
    [kind |-> kind, modifiers |-> modifiers, name |-> name, parameters |-> parameters,
     type |-> type]

\* convertParameters: convertParameter(param, index) for each parameter
convertParameters(classname, params) ==
    [k \in 1..Len(params) |->
        [name |-> <<"var", ToString(k - 1)>>, type |-> typeNode(classname, params[k], TRUE, TRUE)]]

nonNullReturnMethods ==
    {"toString", "wait", "getClass", "hashCode", "notify", "notifyAll", "equals"}

\* a mutant of nonNullReturnType: no name is in the list
nonNullReturnTypeNever(name) == FALSE

\* nonNullReturnMethods.includes(name)
nonNullReturnType(name) == name \in nonNullReturnMethods

\* the declaration createMethod(m, name, i, isSync, nonNullReturnType) returns
createMethodDeclaration(classname, m, name, isSync, nonNull) ==
    LET returned == typeNode(classname, m.returnType, FALSE, ~nonNull)
    IN  Declaration("method",
                    <<"public">> \o (IF m.isStatic THEN <<"static">> ELSE <<>>),
                    <<name>> \o (IF isSync THEN <<"Sync">> ELSE <<>>),
                    convertParameters(classname, m.parameters),
                    IF ~isSync THEN TypeReferenceNode(<<"Promise">>, <<returned>>)
                    ELSE returned)

\* a mutant of convertMethodDeclarations: the synchronous declaration comes
\* first
convertMethodDeclarationsSyncFirst(classname, method, name) ==
    Flatten([i \in 1..Len(method) |->
                <<createMethodDeclaration(classname, method[i], name, TRUE,
                                          nonNullReturnType(name)),
                  createMethodDeclaration(classname, method[i], name, FALSE,
                                          nonNullReturnType(name))>>])

\* the declarations convertMethod(method, name) returns: for each overload
\* the asynchronous and then the synchronous one
convertMethodDeclarations(classname, method, name) ==
    Flatten([i \in 1..Len(method) |->
                <<createMethodDeclaration(classname, method[i], name, FALSE,
                                          nonNullReturnType(name)),
                  createMethodDeclaration(classname, method[i], name, TRUE,
                                          nonNullReturnType(name))>>])

\* for (const [key, method] of Object.entries(convertedMethods))
\*     classMembers.push(...this.convertMethod(method, key))
convertEntries(classname, groups) ==
    Flatten([k \in 1..Len(groups) |->
                convertMethodDeclarations(classname, groups[k].decls, groups[k].name)])

\* a mutant of constructorTypes: the constructors that are not public are
\* converted too
constructorTypesAll(constructors) ==
    [k \in 1..Len(constructors) |-> constructors[k].parameters]

\* the loop of convertConstructors: types holds the parameter type names of
\* the public constructors
constructorTypes(constructors) ==
    LET public == SelectSeq(constructors, LAMBDA c : c.public)
    IN  [k \in 1..Len(public) |-> public[k].parameters]

\* const tsConstructors = types.map(...)
tsConstructors(classname, types) ==
    [k \in 1..Len(types) |->
        Declaration("constructor", <<"public">>, <<>>, convertParameters(classname, types[k]),
                    NoType)]

\* const newInstanceMethods = types.map(...)
newInstanceMethods(classname, types) ==
    [k \in 1..Len(types) |->
        createMethodDeclaration(classname,
                                [returnType |-> classname, parameters |-> types[k],
                                 isStatic |-> TRUE],
                                "newInstance", FALSE, TRUE)]

\* the declarations convertConstructors returns:
\* [...newInstanceMethods, ...tsConstructors]
convertConstructors(classname, types) ==
    newInstanceMethods(classname, types) \o tsConstructors(classname, types)

\* createPrivateConstructor
createPrivateConstructor == Declaration("constructor", <<"private">>, <<>>, <<>>, NoType)

\* the class whose members are converted
ConvertedClass == "a.B"

\* what the foreign runtime answers about the members of the class
DeclaredFieldNames == <<"f", "g", "h">>

DeclaredFieldTypeNames == {"int", "java.lang.Integer", "a.B"}

DeclaredMethodNames == {"toString", "compute"}

DeclaredReturnTypeNames == {"java.lang.String", "int", "char", "void", "a.B"}

DeclaredParameterTypeNames == {<<>>, <<"a.B", "int">>}

\* a member that is not public: nothing but its modifiers is asked
NotPublic ==
    [public |-> FALSE, name |-> "", typeName |-> "", returnType |-> "", parameters |-> <<>>,
     isStatic |-> FALSE, isFinal |-> FALSE]

Declared == Len(reflected.fields) + Len(reflected.methods) + Len(reflected.constructors)

\* generate() has imported the class and fetched its fields and methods
ClassInit ==
    /\ stack = <<>>
    /\ resolvedImports \in {<<ConvertedClass>>, <<"java.lang.Integer", ConvertedClass>>}
    /\ progressCallback = FALSE
    /\ events = <<>>
    /\ inflight = 0
    /\ outcome = "running"
    /\ result = <<>>
    /\ error = ""
    /\ publicMembers = 0
    /\ PathIdle
    /\ mapped = <<>>
    /\ generator = Converter(ConvertedClass)
    /\ phase = "fields"
    /\ reflected = [fields |-> <<>>, methods |-> <<>>, constructors |-> <<>>,
                    isAbstractOrInterface |-> "unknown", fetched |-> FALSE]
    /\ convertedMethods = <<>>
    /\ classMembers = <<>>
    /\ exportMembers = <<>>
    /\ classnames = <<>>
    /\ cli = ""
    /\ declarations = <<>>
    /\ storage = <<>>
    /\ exit = <<>>

ClassFrame ==
    /\ UNCHANGED genVars
    /\ UNCHANGED pathVars
    /\ UNCHANGED <<mapped, cliVars>>

\* one turn of the loop of convertFields; the fields are those onlyUnique has
\* left, so their names differ
ConvertField ==
    /\ phase = "fields"
    /\ Declared < MaxDeclared
    /\ Len(reflected.fields) < Len(DeclaredFieldNames)
    /\ \E public \in BOOLEAN, typeName \in DeclaredFieldTypeNames, isStatic \in BOOLEAN,
          isFinal \in BOOLEAN :
          LET name == DeclaredFieldNames[Len(reflected.fields) + 1]
              value == javaTypeToTypescriptType(generator, resolvedImports, typeName, TRUE, TRUE)
              field == [NotPublic EXCEPT !.public = TRUE, !.name = name,
                                         !.typeName = typeName, !.isStatic = isStatic,
                                         !.isFinal = isFinal]
          IN  IF public
              THEN /\ reflected' = [reflected EXCEPT !.fields = Append(@, field)]
                   /\ classMembers' =
                         Append(classMembers,
                                Declaration("property",
                                            <<"public">>
                                               \o (IF isStatic THEN <<"static">> ELSE <<>>)
                                               \o (IF isFinal THEN <<"readonly">> ELSE <<>>),
                                            <<name>>, <<>>, value.type))
                   /\ generator' = value.gen
              ELSE /\ reflected' = [reflected EXCEPT !.fields = Append(@, NotPublic)]
                   /\ UNCHANGED <<classMembers, generator>>
    /\ UNCHANGED <<phase, convertedMethods, exportMembers>>
    /\ ClassFrame

\* convertFields returns; convertMethods begins
ConvertFieldsReturns ==
    /\ phase = "fields"
    /\ phase' = "methods"
    /\ UNCHANGED <<generator, reflected, convertedMethods, classMembers, exportMembers>>
    /\ ClassFrame

\* one turn of the loop of convertMethods
ConvertMethodsTurn ==
    /\ phase = "methods"
    /\ Declared < MaxDeclared
    /\ \E public \in BOOLEAN, name \in DeclaredMethodNames,
          returnType \in DeclaredReturnTypeNames, parameters \in DeclaredParameterTypeNames,
          isStatic \in BOOLEAN :
          IF public
          THEN /\ reflected' =
                     [reflected EXCEPT !.methods =
                         Append(@, [NotPublic EXCEPT !.public = TRUE, !.name = name,
                                                     !.returnType = returnType,
                                                     !.parameters = parameters,
                                                     !.isStatic = isStatic])]
               /\ convertedMethods' =
                     addMethod(convertedMethods, name,
                               [returnType |-> returnType, parameters |-> parameters,
                                isStatic |-> isStatic])
          ELSE /\ reflected' = [reflected EXCEPT !.methods = Append(@, NotPublic)]
               /\ UNCHANGED convertedMethods
    /\ UNCHANGED <<generator, phase, classMembers, exportMembers>>
    /\ ClassFrame

\* convertMethods returns; generate() converts every entry of its result and
\* asks whether the class is abstract or an interface
ConvertMethodsReturns ==
    /\ phase = "methods"
    /\ classMembers' = classMembers \o convertEntries(generator.classname, convertedMethods)
    /\ generator' = pushes(generator, convertedMethodsReferences(convertedMethods),
                           resolvedImports)
    /\ phase' = "isAbstractOrInterface"
    /\ UNCHANGED <<reflected, convertedMethods, exportMembers>>
    /\ ClassFrame

\* isAbstractOrInterface answers true: no constructor is fetched, and
\* getExportStatement gives the exported class its private constructor
IsAbstractOrInterfaceClass ==
    /\ phase = "isAbstractOrInterface"
    /\ reflected' = [reflected EXCEPT !.isAbstractOrInterface = "yes"]
    /\ exportMembers' = <<createPrivateConstructor>>
    /\ phase' = "done"
    /\ UNCHANGED <<generator, convertedMethods, classMembers>>
    /\ ClassFrame

\* isAbstractOrInterface answers false: cls.getDeclaredConstructors()
IsConcreteClass ==
    /\ phase = "isAbstractOrInterface"
    /\ reflected' = [reflected EXCEPT !.isAbstractOrInterface = "no", !.fetched = TRUE]
    /\ phase' = "constructors"
    /\ UNCHANGED <<generator, convertedMethods, classMembers, exportMembers>>
    /\ ClassFrame

\* one turn of the loop of convertConstructors
ConvertConstructorsTurn ==
    /\ phase = "constructors"
    /\ Declared < MaxDeclared
    /\ \E public \in BOOLEAN, parameters \in DeclaredParameterTypeNames :
          reflected' =
              [reflected EXCEPT !.constructors =
                  Append(@, IF public
                            THEN [NotPublic EXCEPT !.public = TRUE, !.parameters = parameters]
                            ELSE NotPublic)]
    /\ UNCHANGED <<generator, phase, convertedMethods, classMembers, exportMembers>>
    /\ ClassFrame

\* the loop of convertConstructors is over: the declarations are made and
\* pushed, and getExportStatement gives the exported class no member
ConvertConstructorsReturns ==
    /\ phase = "constructors"
    /\ LET types == constructorTypes(reflected.constructors)
       IN  /\ classMembers' = classMembers \o convertConstructors(generator.classname, types)
           /\ generator' = pushes(generator,
                                  convertConstructorsReferences(types, generator.classname),
                                  resolvedImports)
    /\ exportMembers' = <<>>
    /\ phase' = "done"
    /\ UNCHANGED <<reflected, convertedMethods>>
    /\ ClassFrame

ClassNext ==
    \/ ConvertField
    \/ ConvertFieldsReturns
    \/ ConvertMethodsTurn
    \/ ConvertMethodsReturns
    \/ IsAbstractOrInterfaceClass
    \/ IsConcreteClass
    \/ ConvertConstructorsTurn
    \/ ConvertConstructorsReturns

ClassSpec == ClassInit /\ [][ClassNext]_vars

\* ------------------------------------------------------- the command line
\* The handler of the java-ts-gen command: one generator per root class name,
\* all over one resolved list, and each root's modules saved before the next
\* root is generated.  generate() of a root is taken as a whole here: it
\* returns the modules of the root and of the classes it has discovered, or
\* rejects; save() is taken step by step, and every step can fail.

\* the class names a run can meet, and the roots among them
ModuleNames == {"a.A", "a.B", "java.lang.Integer"}

RootNames == {"a.A", "a.B"}

\* sourceText of the module of a class
sourceText(name) == <<"declare", name>>

\* { name: this.classname, contents: sourceText }
ModuleDeclaration(name) == [name |-> name, contents |-> sourceText(name)]

\* the file writeFile leaves when it has ended
File(path, contents) == [path |-> path, contents |-> contents]

\* the file of a declaration, written to its end
WrittenFile(declaration) == File(filePath(text(declaration.name)), declaration.contents)

\* the directories mkdir(, { recursive: true }) makes sure of: the directory
\* and all above it
ancestors(directory) ==
    {SubSeq(directory, 1, k - 1) :
        k \in {j \in 1..(Len(directory) + 1) : j = Len(directory) + 1 \/ directory[j] = "/"}}

\* the lists of class names without repetition of at most MaxDiscovered names
Discoveries(names) ==
    {s \in SeqsUpTo(names, MaxDiscovered) : \A j, k \in 1..Len(s) : s[j] = s[k] => j = k}

CliInit ==
    /\ GenInit
    /\ progressCallback = TRUE
    /\ PathIdle
    /\ mapped = <<>>
    /\ generator = <<>>
    /\ phase = ""
    /\ reflected = <<>>
    /\ convertedMethods = <<>>
    /\ classMembers = <<>>
    /\ exportMembers = <<>>
    /\ classnames \in SeqsUpTo(RootNames, MaxRoots) \ {<<>>}
    /\ cli = [pc |-> "try", classname |-> 0, declaration |-> 0, filePath |-> <<>>,
              numResolved |-> 0, reported |-> FALSE]
    /\ declarations = <<>>
    /\ storage = [directories |-> {}, files |-> {}]
    /\ exit = <<>>

CliFrame ==
    /\ UNCHANGED <<stack, progressCallback, events, inflight, outcome, result, error,
                   publicMembers>>
    /\ UNCHANGED pathVars
    /\ UNCHANGED <<mapped, classVars, classnames>>

\* the handler up to the loop: ensureJvm(), the imports, ora().start(),
\* const resolvedImports = []
Try ==
    /\ cli.pc = "try"
    /\ cli' = [cli EXCEPT !.pc = "generate", !.classname = 1, !.numResolved = 0]
    /\ resolvedImports' = <<>>
    /\ UNCHANGED <<declarations, storage, exit>>
    /\ CliFrame

\* ensureJvm() or an import throws
TryThrows ==
    /\ cli.pc = "try"
    /\ cli' = [cli EXCEPT !.pc = "catch"]
    /\ UNCHANGED <<resolvedImports, declarations, storage, exit>>
    /\ CliFrame

\* generate() of a generator that was given a resolved list of its own: every
\* root is entered, and discovers whatever it refers to
GenerateUnshared ==
    /\ cli.pc = "generate"
    /\ cli.classname <= Len(classnames)
    /\ LET classname == classnames[cli.classname]
       IN  \E discovered \in Discoveries(ModuleNames \ {classname}) :
               /\ resolvedImports' = resolvedImports \o <<classname>> \o discovered
               /\ declarations' = [k \in 1..Len(discovered) |-> ModuleDeclaration(discovered[k])]
                                     \o <<ModuleDeclaration(classname)>>
    /\ cli' = [cli EXCEPT !.pc = "save", !.declaration = 1,
                          !.numResolved = @ + Len(declarations')]
    /\ UNCHANGED <<storage, exit>>
    /\ CliFrame

\* for (const classname of classnames): generated = await generator.generate().
\* A root in the resolved list gives the empty list; any other root is marked,
\* then the classes it discovers, and their modules come before the root's.
\* numResolved += generated.length, then save(generated, output) is entered.
Generate ==
    /\ cli.pc = "generate"
    /\ cli.classname <= Len(classnames)
    /\ LET classname == classnames[cli.classname]
       IN  IF Includes(resolvedImports, classname)
           THEN /\ declarations' = <<>>
                /\ UNCHANGED resolvedImports
           ELSE \E discovered \in
                      Discoveries(ModuleNames \ (Range(resolvedImports) \cup {classname})) :
                    \E order \in Discoveries(Range(discovered)) :
                        /\ Len(order) = Len(discovered)
                        /\ resolvedImports' = resolvedImports \o <<classname>> \o discovered
                        /\ declarations' = [k \in 1..Len(order) |-> ModuleDeclaration(order[k])]
                                              \o <<ModuleDeclaration(classname)>>
    /\ cli' = [cli EXCEPT !.pc = "save", !.declaration = 1,
                          !.numResolved = @ + Len(declarations')]
    /\ UNCHANGED <<storage, exit>>
    /\ CliFrame

\* generator.generate() rejects: the root and what it had discovered are
\* marked, no module is returned
GenerateRejects ==
    /\ cli.pc = "generate"
    /\ cli.classname <= Len(classnames)
    /\ ~Includes(resolvedImports, classnames[cli.classname])
    /\ \E discovered \in Discoveries(ModuleNames \ (Range(resolvedImports)
                                                      \cup {classnames[cli.classname]})) :
          resolvedImports' = resolvedImports \o <<classnames[cli.classname]>> \o discovered
    /\ cli' = [cli EXCEPT !.pc = "catch"]
    /\ UNCHANGED <<declarations, storage, exit>>
    /\ CliFrame

\* for (const declaration of declarations): p = declaration.name.split('.'),
\* the last of p with '.ts', filePath = path.join(sourceDir, ...p)
SaveTurn ==
    /\ cli.pc = "save"
    /\ cli.declaration <= Len(declarations)
    /\ cli' = [cli EXCEPT !.pc = "mkdir",
                          !.filePath = filePath(text(declarations[cli.declaration].name))]
    /\ UNCHANGED <<resolvedImports, declarations, storage, exit>>
    /\ CliFrame

\* await fs.promises.mkdir(path.dirname(filePath), { recursive: true })
Mkdir ==
    /\ cli.pc = "mkdir"
    /\ storage' = [storage EXCEPT !.directories = @ \cup ancestors(dirname(cli.filePath))]
    /\ cli' = [cli EXCEPT !.pc = "writeFile"]
    /\ UNCHANGED <<resolvedImports, declarations, exit>>
    /\ CliFrame

\* mkdir rejects, some of the directories made
MkdirRejects ==
    /\ cli.pc = "mkdir"
    /\ \E made \in SUBSET ancestors(dirname(cli.filePath)) :
          /\ \A directory \in made : ancestors(directory) \subseteq made
          /\ made # ancestors(dirname(cli.filePath))
          /\ storage' = [storage EXCEPT !.directories = @ \cup made]
    /\ cli' = [cli EXCEPT !.pc = "catch"]
    /\ UNCHANGED <<resolvedImports, declarations, exit>>
    /\ CliFrame

\* await fs.promises.writeFile(filePath, declaration.contents): the file at
\* the path is replaced
WriteFile ==
    /\ cli.pc = "writeFile"
    /\ storage' = [storage EXCEPT !.files =
          {file \in @ : file.path # cli.filePath}
              \cup {File(cli.filePath, declarations[cli.declaration].contents)}]
    /\ cli' = [cli EXCEPT !.pc = "save", !.declaration = @ + 1]
    /\ UNCHANGED <<resolvedImports, declarations, exit>>
    /\ CliFrame

\* a rejected writeFile, with the files of the graph rolled back
WriteFileRejectsRollingBack ==
    /\ cli.pc = "writeFile"
    /\ storage' = [storage EXCEPT !.files = {}]
    /\ cli' = [cli EXCEPT !.pc = "catch"]
    /\ UNCHANGED <<resolvedImports, declarations, exit>>
    /\ CliFrame

\* writeFile rejects: the file at the path is as it was, or is there without
\* the whole of the contents
WriteFileRejects ==
    /\ cli.pc = "writeFile"
    /\ \/ UNCHANGED storage
       \/ storage' = [storage EXCEPT !.files =
             {file \in @ : file.path # cli.filePath} \cup {File(cli.filePath, <<>>)}]
    /\ cli' = [cli EXCEPT !.pc = "catch"]
    /\ UNCHANGED <<resolvedImports, declarations, exit>>
    /\ CliFrame

\* save() returns after the last declaration: the next turn of the loop
SaveReturns ==
    /\ cli.pc = "save"
    /\ cli.declaration > Len(declarations)
    /\ cli' = [cli EXCEPT !.pc = "generate", !.classname = @ + 1]
    /\ UNCHANGED <<resolvedImports, declarations, storage, exit>>
    /\ CliFrame

\* after the loop: clearInterval, spinner.succeed; the handler returns and the
\* process ends with status 0
Succeed ==
    /\ cli.pc = "generate"
    /\ cli.classname > Len(classnames)
    /\ cli' = [cli EXCEPT !.pc = "exited"]
    /\ exit' = <<0>>
    /\ UNCHANGED <<resolvedImports, declarations, storage>>
    /\ CliFrame

\* a catch block that goes on with the loop at the same root
CatchRetries ==
    /\ cli.pc = "catch"
    /\ cli.classname >= 1
    /\ cli' = [cli EXCEPT !.pc = "generate"]
    /\ UNCHANGED <<resolvedImports, declarations, storage, exit>>
    /\ CliFrame

\* catch (e): spinner?.fail('Failed to convert classes'); console.error(e)
Catch ==
    /\ cli.pc = "catch"
    /\ cli' = [cli EXCEPT !.pc = "reported", !.reported = TRUE]
    /\ UNCHANGED <<resolvedImports, declarations, storage, exit>>
    /\ CliFrame

\* process.exit(1)
ProcessExit ==
    /\ cli.pc = "reported"
    /\ cli' = [cli EXCEPT !.pc = "exited"]
    /\ exit' = <<1>>
    /\ UNCHANGED <<resolvedImports, declarations, storage>>
    /\ CliFrame

CliNext ==
    \/ Try
    \/ TryThrows
    \/ Generate
    \/ GenerateRejects
    \/ SaveTurn
    \/ Mkdir
    \/ MkdirRejects
    \/ WriteFile
    \/ WriteFileRejects
    \/ SaveReturns
    \/ Succeed
    \/ Catch
    \/ ProcessExit

CliSpec == CliInit /\ [][CliNext]_vars

\* a settled promise runs its continuation and the catch block runs to its
\* end: every step of the handler that can be taken is taken
CliLiveSpec == CliSpec /\ WF_vars(CliNext)

\* ------------------------------------------------- the fields of one class
\* generate() from cls.getFields() to the return of convertFields: the list
\* the foreign runtime answers can name a field more than once (a field that
\* hides an inherited one), filter(onlyUnique) keeps the first field of each
\* name, and convertFields asks each field that is left for its modifiers.

FieldNamesAnswered == {"f", "g"}

\* the modifiers of a field, as far as convertFields asks for them
FieldModifiers ==
    {[isStatic |-> FALSE, isFinal |-> FALSE], [isStatic |-> TRUE, isFinal |-> FALSE],
     [isStatic |-> FALSE, isFinal |-> TRUE]}

FieldsAnswered ==
    {[NotPublic EXCEPT !.public = public, !.name = name, !.typeName = "int",
                       !.isStatic = modifiers.isStatic, !.isFinal = modifiers.isFinal] :
        public \in BOOLEAN, name \in FieldNamesAnswered, modifiers \in FieldModifiers}

\* a filter that keeps every field
filterAll(list) == list

\* (await cls.getFields()).filter(onlyUnique), onlyUnique by getNameSync():
\* the fields whose name no earlier field of the list has
filterOnlyUnique(list) ==
    LET indices == SelectSeq([k \in 1..Len(list) |-> k],
                             LAMBDA k : \A j \in 1..(k - 1) : list[j].name # list[k].name)
    IN  [i \in 1..Len(indices) |-> list[indices[i]]]

FieldInit ==
    /\ GenInit
    /\ progressCallback = FALSE
    /\ PathIdle
    /\ mapped = <<>>
    /\ generator = Converter(ConvertedClass)
    /\ phase = "getFields"
    /\ reflected \in [getFields : SeqsUpTo(FieldsAnswered, MaxFieldList), fields : {<<>>},
                      index : {0}]
    /\ convertedMethods = <<>>
    /\ classMembers = <<>>
    /\ exportMembers = <<>>
    /\ classnames = <<>>
    /\ cli = ""
    /\ declarations = <<>>
    /\ storage = <<>>
    /\ exit = <<>>

\* const fields = (await cls.getFields()).filter(onlyUnique)
GetFieldsFiltered ==
    /\ phase = "getFields"
    /\ reflected' = [reflected EXCEPT !.fields = filterOnlyUnique(reflected.getFields)]
    /\ phase' = "convertFields"
    /\ UNCHANGED <<generator, convertedMethods, classMembers, exportMembers>>
    /\ ClassFrame

\* one turn of for (const field of fields) in convertFields
ConvertFieldsTurn ==
    /\ phase = "convertFields"
    /\ reflected.index < Len(reflected.fields)
    /\ LET field == reflected.fields[reflected.index + 1]
           value == javaTypeToTypescriptType(generator, resolvedImports, field.typeName,
                                             TRUE, TRUE)
       IN  IF field.public
           THEN /\ classMembers' =
                      Append(classMembers,
                             Declaration("property",
                                         <<"public">>
                                            \o (IF field.isStatic THEN <<"static">> ELSE <<>>)
                                            \o (IF field.isFinal THEN <<"readonly">> ELSE <<>>),
                                         <<field.name>>, <<>>, value.type))
                /\ generator' = value.gen
           ELSE UNCHANGED <<classMembers, generator>>
    /\ reflected' = [reflected EXCEPT !.index = @ + 1]
    /\ UNCHANGED <<phase, convertedMethods, exportMembers>>
    /\ ClassFrame

\* convertFields returns res
ConvertFieldsReturn ==
    /\ phase = "convertFields"
    /\ reflected.index = Len(reflected.fields)
    /\ phase' = "convertMethods"
    /\ UNCHANGED <<generator, reflected, convertedMethods, classMembers, exportMembers>>
    /\ ClassFrame

FieldNext ==
    \/ GetFieldsFiltered
    \/ ConvertFieldsTurn
    \/ ConvertFieldsReturn

FieldSpec == FieldInit /\ [][FieldNext]_vars

\* ------------------------------------- generate() calls that interleave
\* MaxCalls generate() calls of generators that share one resolved list run
\* at once: each runs without interruption from one await to the next, and
\* at an await any of them goes on.  stack, outcome and result hold one entry
\* per call; events name the call.  The conversion of the members of a class
\* is one step here, which leaves the generator its additionalImports.

Calls == 1..MaxCalls

\* a generator of a call, suspended at await importClassAsync(this.classname)
Running(classname) ==
    [classname |-> classname, pc |-> "importClass", additionalImports |-> <<>>, i |-> 0,
     res |-> <<>>]

\* the resolved list and the events after the prologue of generate() has run
\* for a class: the check, the push, the callback and the issue of the import,
\* with no await between them
enter(call, classname) ==
    /\ resolvedImports' = markResolved(resolvedImports, classname)
    /\ events' = events \o [k \in 1..Len(enterEvents(classname, progressCallback)) |->
                               Append(enterEvents(classname, progressCallback)[k], call)]

ConcurrentInit ==
    /\ stack = [call \in Calls |-> <<>>]
    /\ resolvedImports = <<>>
    /\ progressCallback = TRUE
    /\ events = <<>>
    /\ inflight = 0
    /\ outcome = [call \in Calls |-> "idle"]
    /\ result = [call \in Calls |-> <<>>]
    /\ error = ""
    /\ publicMembers = 0
    /\ PathIdle
    /\ UnitIdle

ConcurrentFrame == UNCHANGED <<progressCallback, publicMembers, pathVars, unitVars>>

\* generator.generate() is called for a root class, the list includes it
RootResolved(call) ==
    /\ outcome[call] = "idle"
    /\ \E classname \in ClassNames : isResolved(resolvedImports, classname)
    /\ outcome' = [outcome EXCEPT ![call] = "returned"]
    /\ UNCHANGED <<stack, resolvedImports, events, inflight, result, error>>
    /\ ConcurrentFrame

\* generator.generate() is called for a root class, the list does not include it
RootEnter(call) ==
    /\ outcome[call] = "idle"
    /\ \E classname \in ClassNames :
          /\ ~isResolved(resolvedImports, classname)
          /\ enter(call, classname)
          /\ stack' = [stack EXCEPT ![call] = <<Running(classname)>>]
    /\ outcome' = [outcome EXCEPT ![call] = "running"]
    /\ inflight' = inflight + 1
    /\ UNCHANGED <<result, error>>
    /\ ConcurrentFrame

\* the generator on top of a call
TopOf(call) == stack[call][Len(stack[call])]

AtOf(call, pc) == stack[call] # <<>> /\ TopOf(call).pc = pc

\* await importClassAsync(this.classname) rejects: the call rejects
ImportRejects(call) ==
    /\ AtOf(call, "importClass")
    /\ stack' = [stack EXCEPT ![call] = propagate(SubSeq(@, 1, Len(@) - 1))]
    /\ outcome' = [outcome EXCEPT ![call] = "failed"]
    /\ error' = TopOf(call).classname
    /\ inflight' = inflight - 1
    /\ UNCHANGED <<resolvedImports, events, result>>
    /\ ConcurrentFrame

\* the class is imported and its members are converted: the classes the
\* signatures reference that the list did not include are the imports to
\* generate, a class as often as it was referenced
MembersConverted(call) ==
    /\ AtOf(call, "importClass")
    /\ \E imports \in SeqsUpTo(ClassNames \ Range(resolvedImports), MaxImports) :
          stack' = [stack EXCEPT ![call][Len(stack[call])] =
                       [@ EXCEPT !.pc = "loop", !.additionalImports = imports, !.i = 1]]
    /\ inflight' = inflight - 1
    /\ UNCHANGED <<resolvedImports, events, outcome, result, error>>
    /\ ConcurrentFrame

\* for (const imported of this.additionalImports): generate() of a class the
\* list includes returns [], and res.push(...generated)
ImportResolved(call) ==
    /\ AtOf(call, "loop")
    /\ TopOf(call).i <= Len(TopOf(call).additionalImports)
    /\ isResolved(resolvedImports, TopOf(call).additionalImports[TopOf(call).i])
    /\ stack' = [stack EXCEPT ![call][Len(stack[call])] =
                    [@ EXCEPT !.res = pushGenerated(@, <<>>), !.i = @ + 1]]
    /\ UNCHANGED <<resolvedImports, events, inflight, outcome, result, error>>
    /\ ConcurrentFrame

\* the same for a class the list does not include: its generator is entered
ImportEnter(call) ==
    /\ AtOf(call, "loop")
    /\ TopOf(call).i <= Len(TopOf(call).additionalImports)
    /\ ~isResolved(resolvedImports, TopOf(call).additionalImports[TopOf(call).i])
    /\ enter(call, TopOf(call).additionalImports[TopOf(call).i])
    /\ stack' = [stack EXCEPT ![call] =
                    Append(@, Running(TopOf(call).additionalImports[TopOf(call).i]))]
    /\ inflight' = inflight + 1
    /\ UNCHANGED <<outcome, result, error>>
    /\ ConcurrentFrame

\* res.push({ name: this.classname, contents: sourceText }); return res
Returning(call) ==
    /\ AtOf(call, "loop")
    /\ TopOf(call).i > Len(TopOf(call).additionalImports)
    /\ LET value == Append(TopOf(call).res, ModuleDeclaration(TopOf(call).classname))
           callers == SubSeq(stack[call], 1, Len(stack[call]) - 1)
       IN  IF callers = <<>>
           THEN /\ stack' = [stack EXCEPT ![call] = <<>>]
                /\ outcome' = [outcome EXCEPT ![call] = "returned"]
                /\ result' = [result EXCEPT ![call] = value]
           ELSE /\ stack' = [stack EXCEPT ![call] =
                               [callers EXCEPT ![Len(callers)] =
                                   [@ EXCEPT !.res = pushGenerated(@, value), !.i = @ + 1]]]
                /\ UNCHANGED <<outcome, result>>
    /\ UNCHANGED <<resolvedImports, events, inflight, error>>
    /\ ConcurrentFrame

ConcurrentNext ==
    \E call \in Calls :
        \/ RootResolved(call)
        \/ RootEnter(call)
        \/ ImportRejects(call)
        \/ MembersConverted(call)
        \/ ImportResolved(call)
        \/ ImportEnter(call)
        \/ Returning(call)

ConcurrentSpec == ConcurrentInit /\ [][ConcurrentNext]_vars

\* ---------------------------------------------------- the run, observed
Finished == outcome \in {"returned", "failed"}

Names(list) == {list[k].name : k \in 1..Len(list)}

\* position of the module of a class in a list; 0 when it has none
Position(list, name) ==
    IF name \in Names(list) THEN CHOOSE k \in 1..Len(list) : list[k].name = name ELSE 0

NoDuplicate(list) == \A j, k \in 1..Len(list) : list[j].name = list[k].name => j = k

\* every list of modules of the state: the result of the root, and what the
\* running generators hold
Lists ==
    {result} \cup {stack[k].res : k \in 1..Len(stack)}
             \cup UNION {Range(stack[k].generated) : k \in 1..Len(stack)}

Imported(classname) == {k \in 1..Len(events) : events[k] = <<"import", classname>>}

Progress == SelectSeq(events, LAMBDA e : e[1] = "progress")

\* the value of the generate() call that returns in this step
Returns == At("loop") /\ Top.i > Len(Top.additionalImports)
Returned == IF Len(stack) = 1 THEN result' ELSE stack'[Len(stack')].generated[Len(stack'[Len(stack')].generated)]

\* ------------------------------------------------------------- claims
\* what C1 says of the lists: no list holds two modules of one class, and
\* the sub-results of two running generators share no class
C1_OneModule ==
    /\ \A list \in Lists : NoDuplicate(list)
    /\ \A k \in 1..Len(stack) : \A j \in 1..Len(stack) :
          j # k => Names(stack[j].res) \cap Names(stack[k].res) = {}

\* what C1 says of a call for a name that is already resolved
C1_ResolvedIsEmpty ==
    (Calling /\ Includes(resolvedImports, Callee)) =>
        /\ resolvedImports' = resolvedImports
        /\ events' = events
        /\ IF outcome = "idle" THEN result' = <<>> /\ outcome' = "returned"
           ELSE /\ Len(stack') = Len(stack)
                /\ stack'[Len(stack')].res = Top.res
                /\ stack'[Len(stack')].generated = Append(Top.generated, <<>>)

\* C1: in one run every class name is the name of at most one module of any
\* returned list (the result of the root and every sub-result), and a
\* generate() call for a name that is in the resolved list returns the empty
\* list (the caller's res stays as it is, nothing is marked or imported).
C1_AtMostOneModule == [](C1_OneModule) /\ [][C1_ResolvedIsEmpty]_vars

\* C1 witness: the root returned, and a class that two other modules
\* reference (it is reached through two parents) has its one module
C1_Witness ==
    /\ outcome = "returned"
    /\ \E j, k \in 1..Len(result) :
          /\ j # k
          /\ \E d \in result[j].contents.references \cap result[k].contents.references :
                d \notin {result[j].name, result[k].name} /\ d \in Names(result)

\* C2: when the root generate(), called with an empty resolved list, returned,
\* every class name referenced by a type reference of a returned module is the
\* name of a returned module.
C2_ClosureComplete ==
    outcome = "returned" =>
        \A k \in 1..Len(result) : result[k].contents.references \subseteq Names(result)

\* C2 witness: the root returned three modules, two of them referenced from
\* another module
C2_Witness ==
    /\ outcome = "returned"
    /\ Len(result) = 3
    /\ \E k \in 1..Len(result) :
          Cardinality(result[k].contents.references \ {result[k].name}) = 2

\* no class is imported twice
C3_ImportedOnce == \A c \in Range(resolvedImports) \cup ClassNames : Cardinality(Imported(c)) <= 1

\* C3: the metadata of a class is imported at most once in a run, and the run
\* finishes (the root generate() returns or rejects), whatever the class graph.
C3_Terminates == [](C3_ImportedOnce) /\ <>Finished

\* C3 witness: the run finished on a class graph with a class that references
\* itself and two classes that reference each other
C3_Witness ==
    /\ outcome = "returned"
    /\ \E k \in 1..Len(result) : result[k].name \in result[k].contents.references
    /\ \E j, k \in 1..Len(result) :
          /\ j # k
          /\ result[j].name \in result[k].contents.references
          /\ result[k].name \in result[j].contents.references

\* the outcome of the root generate() against the rejected import
C4_Outcome ==
    /\ error # "" => /\ outcome = "failed"
                     /\ stack = <<>>
                     /\ result = <<>>
                     /\ events[Len(events)] = <<"import", error>>
    /\ outcome = "failed" => error # ""
    /\ outcome = "returned" => error = "" /\ Names(result) = Range(resolvedImports)

\* C4: when an import rejects, at whatever depth, the root generate() rejects
\* with the error of that import and returns no list, and nothing more is done
\* (no retry, no other class); when it returns, no import has rejected and
\* the list holds a module of every class entered.
C4_AllOrNothing == [](C4_Outcome) /\ [][outcome = "failed" => UNCHANGED vars]_vars

\* C4 witness: the import of a class two calls below the root rejected
C4_Witness ==
    /\ outcome = "failed"
    /\ Len(resolvedImports) = 3
    /\ error = resolvedImports[3]

\* the getTypeName() calls of one Promise.all that have not settled
PendingTypeNames(gen) == Cardinality({k \in 1..Len(gen.parameters) : gen.parameters[k] = "?"})

AwaitsParameterTypeNames(gen) == gen.pc \in {"cm.parameterTypeNames", "cc.parameterTypeNames"}

\* C5 as claimed: at no time are two calls into the foreign runtime issued
\* and not yet completed.
C5_NoConcurrentCalls == inflight <= 1

\* C5 as amended: two or more calls into the foreign runtime are outstanding
\* only while the generator on top awaits the Promise.all over the
\* getTypeName() of the parameter types of one method or constructor, and then
\* they are exactly the unsettled ones of these; at every other await exactly
\* one call is outstanding, and none between two generate() calls of the loop.
C5_OnlyParameterTypeNamesConcurrent ==
    IF stack = <<>> THEN inflight = 0
    ELSE inflight = (IF AwaitsParameterTypeNames(Top) THEN PendingTypeNames(Top)
                     ELSE IF Top.pc = "loop" THEN 0
                     ELSE 1)

\* C5 witness: the getTypeName() calls of two parameter types are outstanding
C5_Witness == At("cm.parameterTypeNames") /\ inflight = 2 /\ PendingTypeNames(Top) = 2

\* the classes a module references in its signatures, itself left out
Dependencies(module) == module.contents.references \ {module.name}

\* position of a class in the resolved list (the order of entry); 0 when absent
Entered(classname) == IndexOf(resolvedImports, classname)

\* C6 as claimed: in the returned list the module of every class that a
\* module M references (M itself left out) stands before M.
C6_DependenciesFirst ==
    outcome = "returned" =>
        \A k \in 1..Len(result) : \A d \in Dependencies(result[k]) :
            Position(result, d) < k

\* C6 as amended: in the returned list the module of every class D that a
\* module M references (D different from M) stands before M, unless the
\* generate() of D was entered before that of M and was still running (M was
\* reached from D, the reference closes a cycle): then it stands after M.
C6_DependenciesFirstButCycles ==
    outcome = "returned" =>
        \A k \in 1..Len(result) : \A d \in Dependencies(result[k]) :
            /\ Position(result, d) # 0
            /\ Position(result, d) > k => Entered(d) < Entered(result[k].name)

\* C6 witness: the returned list has a module whose dependency stands before
\* it and a module whose dependency (its caller) stands after it
C6_Witness ==
    /\ outcome = "returned"
    /\ \E k \in 1..Len(result) : \E d \in Dependencies(result[k]) : Position(result, d) < k
    /\ \E k \in 1..Len(result) : \E d \in Dependencies(result[k]) : Position(result, d) > k

\* what C7 says of the generators that are running: res holds the sub-results
\* of the calls made so far, in the order of additionalImports, and the k-th
\* sub-result is empty or ends with the module of the k-th import
C7_SubResults ==
    \A n \in 1..Len(stack) :
        LET gen == stack[n]
        IN  /\ gen.res = Flatten(gen.generated)
            /\ Len(gen.generated) <= Len(gen.additionalImports)
            /\ \A k \in 1..Len(gen.generated) :
                  \/ gen.generated[k] = <<>>
                  \/ gen.generated[k][Len(gen.generated[k])].name = gen.additionalImports[k]

\* what C7 says of the step in which a generate() returns
C7_ReturnStep ==
    Returns =>
        /\ Len(Top.generated) = Len(Top.additionalImports)
        /\ Returned = Flatten(Top.generated) \o <<[name |-> Top.classname, contents |-> Top.sourceText]>>
        /\ \A k \in 1..Len(Top.res) : Top.res[k].name # Top.classname

\* C7: the list a generate() of a class not yet resolved returns is the
\* concatenation of the lists its recursive generate() calls returned, one
\* per entry of additionalImports and in that order, followed by exactly one
\* module of the class itself, which is its last element.
C7_Concatenation == [](C7_SubResults) /\ [][C7_ReturnStep]_vars

\* C7 witness: the root returned a list made of two non-empty sub-results
\* and its own module
C7_Witness ==
    /\ outcome = "returned"
    /\ Len(result) = 3
    /\ result[3].name = RootClass
    /\ Cardinality(Dependencies(result[3])) = 2

\* C8: with a progress callback, the run's effects are, class after class
\* in the order of entry: the class is marked resolved, the callback is called
\* with its name, its import is issued; so the callback is called once per
\* class processed, and its arguments are the classes in order of entry.
C8_ProgressPerClass ==
    progressCallback =>
        /\ Len(events) = 3 * Len(resolvedImports)
        /\ \A k \in 1..Len(resolvedImports) :
              /\ events[3 * k - 2] = <<"resolved", resolvedImports[k]>>
              /\ events[3 * k - 1] = <<"progress", resolvedImports[k]>>
              /\ events[3 * k] = <<"import", resolvedImports[k]>>
        /\ \A c \in Range(resolvedImports) :
              Cardinality({k \in 1..Len(Progress) : Progress[k] = <<"progress", c>>}) = 1
        /\ Len(Progress) = Len(resolvedImports)

\* C8 witness: the callback was called for three classes and the run returned
C8_Witness == progressCallback /\ outcome = "returned" /\ Len(Progress) = 3

\* the leading segments two split names share
RECURSIVE commonLeading(_, _)
commonLeading(thisSplit, importSplit) ==
    IF thisSplit # <<>> /\ importSplit # <<>> /\ Head(thisSplit) = Head(importSplit)
    THEN 1 + commonLeading(Tail(thisSplit), Tail(importSplit))
    ELSE 0

\* './', then the parent steps, then the segments joined by '/'
RelativePath(parents, segments) ==
    <<".", "/">> \o Flatten([k \in 1..parents |-> <<".", ".", "/">>]) \o join(segments, <<"/">>)

\* C9 as claimed: the import path that the module of class X has for class Y,
\* resolved against the directory of the file save() writes for X, is the
\* file save() writes for Y, without its extension.
C9_ImportPathDenotesFile ==
    \A x, y \in written :
        (x.name = importing /\ y.name = imported /\ importPath # <<>>) =>
            resolve(dirname(x.filePath), importPath) \o <<".", "t", "s">> = y.filePath

\* C10 as claimed: the import path is './', one parent step for every segment
\* of the importing name that is left after the common leading segments, and
\* the segments of the imported name that are left, joined by '/'.
C10_ParentStepPerSegment ==
    importPath # <<>> =>
        LET thisSplit == split(importing, ".")
            importSplit == split(imported, ".")
            common == commonLeading(thisSplit, importSplit)
        IN  importPath = RelativePath(Len(thisSplit) - common,
                                      SubSeq(importSplit, common + 1, Len(importSplit)))

\* C10 as amended: the import path is './', one parent step for every segment
\* but one of the importing name that is left after the common leading
\* segments (none when no segment is left), and the segments of the imported
\* name that are left, joined by '/'.
C10_ParentStepPerSegmentButOne ==
    importPath # <<>> =>
        LET thisSplit == split(importing, ".")
            importSplit == split(imported, ".")
            common == commonLeading(thisSplit, importSplit)
            left == Len(thisSplit) - common
        IN  importPath = RelativePath(IF left = 0 THEN 0 ELSE left - 1,
                                      SubSeq(importSplit, common + 1, Len(importSplit)))

\* C10 witness: an import path was made for two names that share a leading
\* segment, with two segments left of the importing name and one or more of
\* the imported name
C10_Witness ==
    /\ importPath # <<>>
    /\ LET thisSplit == split(importing, ".")
           importSplit == split(imported, ".")
           common == commonLeading(thisSplit, importSplit)
       IN  /\ common >= 1
           /\ Len(thisSplit) - common >= 2
           /\ Len(importSplit) - common >= 1

\* the generator before the one call of the mapper: its lists are empty
BeforeCall == Converter(generator.classname)

\* the value of the same call in the other position
OtherPosition ==
    javaTypeToTypescriptType(BeforeCall, resolvedImports, mapped.javaType,
                             ~mapped.isParam, mapped.strictNullTypes)

\* C18 as claimed: long and java.lang.Long map, in parameter position and in
\* non-parameter position alike, to a union that holds the numeric type and
\* the arbitrary-precision integer type, and the null literal exactly when
\* nullability is requested and the type is not primitive.
C18_WideIntegerBothPositions ==
    (mapped.called /\ mapped.javaType \in LongCases) =>
        /\ mapped.type.kind = "union"
        /\ KeywordTypeNode("number") \in Range(mapped.type.types)
        /\ KeywordTypeNode("bigint") \in Range(mapped.type.types)
        /\ LiteralNull \in Range(mapped.type.types)
              <=> (mapped.strictNullTypes /\ ~isPrimitive(mapped.javaType))

\* C19 as claimed: for every type name but the numeric and boolean primitives
\* and their boxed types, and for every nullability mode, the mapper gives the
\* same type and registers the same references in both positions.
C19_PositionOnlyNumericBoolean ==
    (mapped.called /\ mapped.javaType \notin UnionTypeNames) =>
        /\ mapped.type = OtherPosition.type
        /\ generator = OtherPosition.gen

\* the type names whose mapping depends on the position: the numeric and
\* boolean primitives and their boxed types, the name of the class that is
\* generated, and the arrays of these that are no byte arrays
PositionDependent ==
    LET names == UnionTypeNames \cup {generator.classname}
    IN  names \cup {javaType \in ArrayTypeNames \ {"byte[]", "java.lang.Byte[]"} :
                       elementType(javaType) \in names}

\* C19 as amended: for every type name but the numeric and boolean primitives
\* and their boxed types, the name of the class that is generated, and the
\* arrays of these (byte arrays left out), and for every nullability mode, the
\* mapper gives the same type and registers the same references in both
\* positions; for the name of the class that is generated the references
\* registered are the same in both positions.
C19_PositionOnlyNumericBooleanSelf ==
    mapped.called =>
        /\ mapped.javaType \notin PositionDependent =>
              /\ mapped.type = OtherPosition.type
              /\ generator = OtherPosition.gen
        /\ mapped.javaType = generator.classname => generator = OtherPosition.gen

\* C19 witness: the name of a class other than the generated one was mapped
\* in parameter position
C19_Witness ==
    /\ mapped.called
    /\ mapped.isParam
    /\ mapped.javaType \in {"a.A", "a.B"} \ {generator.classname}
    /\ mapped.type.kind = "union"

\* C20 as claimed: a reference is registered only for a class name that is no
\* primitive or boxed type, and mapping a primitive or boxed numeric or
\* boolean type, in any position, leaves importsToResolve and
\* additionalImports as they were.
C20_PrimitiveRegistersNothing ==
    mapped.called =>
        /\ Range(generator.importsToResolve) \cap UnionTypeNames = {}
        /\ mapped.javaType \in UnionTypeNames =>
              /\ generator.importsToResolve = BeforeCall.importsToResolve
              /\ generator.additionalImports = BeforeCall.additionalImports

\* C20 as amended: mapping a primitive or boxed numeric or boolean type
\* leaves both lists as they were in non-parameter position; in parameter
\* position it appends the boxed class of the type to importsToResolve and,
\* unless resolvedImports includes it, to additionalImports.  Mapping a string,
\* void, root-object or byte-array type registers nothing in any position.
C20_PrimitiveRegistersBoxedAsParameter ==
    mapped.called =>
        LET boxed == primitiveToClassType(mapped.javaType)
        IN  /\ (mapped.javaType \in UnionTypeNames /\ ~mapped.isParam) =>
                  generator = BeforeCall
            /\ (mapped.javaType \in UnionTypeNames /\ mapped.isParam) =>
                  /\ generator.importsToResolve = <<boxed>>
                  /\ generator.additionalImports =
                        IF Includes(resolvedImports, boxed) THEN <<>> ELSE <<boxed>>
            /\ mapped.javaType \in KeywordTypeNames \cup {"byte[]", "java.lang.Byte[]"} =>
                  /\ generator.importsToResolve = <<>>
                  /\ generator.additionalImports = <<>>

\* C20 witness: int was mapped in parameter position and java.lang.Integer is
\* an additional import
C20_Witness ==
    /\ mapped.called
    /\ mapped.javaType = "int"
    /\ mapped.isParam
    /\ generator.additionalImports = <<"java.lang.Integer">>

\* ------------------------------------------- the converted class, observed
\* the public members the foreign runtime has reported, in order
PublicFields == SelectSeq(reflected.fields, LAMBDA f : f.public)

Overloads(name) == SelectSeq(reflected.methods, LAMBDA m : m.public /\ m.name = name)

PublicConstructors == SelectSeq(reflected.constructors, LAMBDA c : c.public)

\* the declarations of the declared class, by kind
Properties == SelectSeq(classMembers, LAMBDA d : d.kind = "property")

MethodDeclarations(name) ==
    SelectSeq(classMembers, LAMBDA d : d.kind = "method" /\ d.name \in {<<name>>, <<name, "Sync">>})

ConstructorDeclarations == SelectSeq(classMembers, LAMBDA d : d.kind = "constructor")

Factories ==
    SelectSeq(classMembers, LAMBDA d : d.kind = "method" /\ d.name = <<"newInstance">>)

\* the methods are converted
MethodsConverted == phase \in {"isAbstractOrInterface", "constructors", "done"}

IsPromise(type) == type.kind = "reference" /\ type.name = <<"Promise">>

\* the null literal is a member of the union at the top of a type
HasNull(type) == type.kind = "union" /\ LiteralNull \in Range(type.types)

\* the type references at the top of a type: the type itself or the members
\* of the union it is
References(type) ==
    IF type.kind = "union" THEN {t \in Range(type.types) : t.kind = "reference"}
    ELSE IF type.kind = "reference" THEN {type} ELSE {}

NumericTypeNames == NumberCases \cup LongCases

C12_ConstructorDuality ==
    phase = "done" =>
        IF reflected.isAbstractOrInterface = "no"
        THEN /\ Len(ConstructorDeclarations) = Len(PublicConstructors)
             /\ Len(Factories) = Len(PublicConstructors)
             /\ \A j \in 1..Len(PublicConstructors) :
                   /\ Len(ConstructorDeclarations[j].parameters)
                         = Len(PublicConstructors[j].parameters)
                   /\ Len(Factories[j].parameters) = Len(PublicConstructors[j].parameters)
                   /\ ConstructorDeclarations[j].modifiers = <<"public">>
                   /\ "static" \in Range(Factories[j].modifiers)
             /\ exportMembers = <<>>
        ELSE /\ reflected.isAbstractOrInterface = "yes"
             /\ ConstructorDeclarations = <<>>
             /\ Factories = <<>>
             /\ ~reflected.fetched
             /\ reflected.constructors = <<>>
             /\ exportMembers = <<createPrivateConstructor>>
             /\ createPrivateConstructor.modifiers = <<"private">>

\* C12 witness: a concrete class with a public constructor of two parameters
\* and a constructor that is not public is converted
C12_Witness ==
    /\ phase = "done"
    /\ reflected.isAbstractOrInterface = "no"
    /\ Len(reflected.constructors) = 2
    /\ Len(PublicConstructors) = 1
    /\ Len(PublicConstructors[1].parameters) = 2
    /\ Len(ConstructorDeclarations) = 1

\* C13 as claimed: the declared type of a field of a numeric type is the union
\* of the numeric type and the null literal, without a reference to the boxed
\* class; a parameter of a numeric type has the reference to the boxed class
\* in its union as well.
C13_FieldNotWidened ==
    /\ \A j \in 1..Len(Properties) :
          PublicFields[j].typeName \in NumericTypeNames =>
              /\ Properties[j].type.kind = "union"
              /\ KeywordTypeNode("number") \in Range(Properties[j].type.types)
              /\ LiteralNull \in Range(Properties[j].type.types)
              /\ References(Properties[j].type) = {}
    /\ MethodsConverted =>
          \A name \in DeclaredMethodNames : \A j \in 1..Len(Overloads(name)) :
              \A k \in 1..Len(Overloads(name)[j].parameters) :
                  LET javaType == Overloads(name)[j].parameters[k]
                      type == MethodDeclarations(name)[2 * j].parameters[k].type
                  IN  javaType \in NumericTypeNames =>
                          /\ KeywordTypeNode("number") \in Range(type.types)
                          /\ References(type)
                                = {TypeReferenceNode(
                                      replaceAll(text(primitiveToClassType(javaType)), ".", "_"),
                                      <<>>)}

\* how C14 reads the return type of the j-th overload of a method name: the
\* type of the synchronous declaration, which the asynchronous one wraps
ReturnTypeOf(name, j) == MethodDeclarations(name)[2 * j].type

\* the parameters of the overloads of a method name are null-unioned as
\* usual: as convertParameter does whatever the name is
ParametersAsUsual(name) ==
    \A j \in 1..Len(Overloads(name)) :
        \A d \in {MethodDeclarations(name)[2 * j - 1], MethodDeclarations(name)[2 * j]} :
            /\ Len(d.parameters) = Len(Overloads(name)[j].parameters)
            /\ \A k \in 1..Len(d.parameters) :
                  HasNull(d.parameters[k].type) <=> ~isPrimitive(Overloads(name)[j].parameters[k])

\* C14 as claimed: the return type of a method named toString, wait, getClass,
\* hashCode, notify, notifyAll or equals has no null in its top union, in the
\* asynchronous and in the synchronous declaration, and its parameters are
\* null-unioned as usual; the return type of a method of any other name is
\* unioned with null.
C14_NonNullReturnMethods ==
    MethodsConverted =>
        \A name \in DeclaredMethodNames :
            /\ ParametersAsUsual(name)
            /\ \A j \in 1..Len(Overloads(name)) :
                  /\ MethodDeclarations(name)[2 * j - 1].type.types = <<ReturnTypeOf(name, j)>>
                  /\ HasNull(ReturnTypeOf(name, j)) <=> name \notin nonNullReturnMethods

\* the return types that are unioned with null under no name: void and the
\* numeric and boolean primitives
NeverNull == VoidCases \cup {type \in UnionTypeNames : isPrimitive(type)}

\* C14 as amended: the return type of a method named toString, wait, getClass,
\* hashCode, notify, notifyAll or equals has no null in its top union, in the
\* asynchronous and in the synchronous declaration, and its parameters are
\* null-unioned as usual; the return type of a method of any other name is
\* unioned with null unless it is void or a numeric or boolean primitive,
\* which is unioned with null under no name.
C14_NonNullReturnMethodsButPrimitives ==
    MethodsConverted =>
        \A name \in DeclaredMethodNames :
            /\ ParametersAsUsual(name)
            /\ \A j \in 1..Len(Overloads(name)) :
                  /\ MethodDeclarations(name)[2 * j - 1].type.types = <<ReturnTypeOf(name, j)>>
                  /\ HasNull(ReturnTypeOf(name, j))
                        <=> /\ name \notin nonNullReturnMethods
                            /\ Overloads(name)[j].returnType \notin NeverNull

\* C14 witness: a method toString and a method compute of the same signature,
\* which returns a string and has parameters, are converted
C14_Witness ==
    /\ phase = "done"
    /\ Len(Overloads("toString")) = 1
    /\ Len(Overloads("compute")) = 1
    /\ Overloads("toString")[1].returnType = "java.lang.String"
    /\ Overloads("compute")[1].returnType = "java.lang.String"
    /\ Overloads("toString")[1].parameters = Overloads("compute")[1].parameters
    /\ Overloads("compute")[1].parameters # <<>>
    /\ ~HasNull(ReturnTypeOf("toString", 1))
    /\ HasNull(ReturnTypeOf("compute", 1))

\* the references to the class itself: plain, and the self alias
PlainReference ==
    TypeReferenceNode(SubSeq(text(generator.classname),
                             lastIndexOf(text(generator.classname), ".") + 1,
                             Len(text(generator.classname))), <<>>)

SelfReference == [PlainReference EXCEPT !.name = @ \o <<"Class">>]

\* C15 as claimed: in the declarations of class a.B a parameter of type a.B
\* has the reference to the self alias (the simple name with the suffix
\* Class), a field of type a.B and a method that returns a.B have the plain
\* reference (the simple name), and the two references differ.
C15_SelfAliasInParametersOnly ==
    /\ PlainReference # SelfReference
    /\ \A j \in 1..Len(Properties) :
          PublicFields[j].typeName = generator.classname =>
              References(Properties[j].type) = {PlainReference}
    /\ MethodsConverted =>
          \A name \in DeclaredMethodNames : \A j \in 1..Len(Overloads(name)) :
              /\ Overloads(name)[j].returnType = generator.classname =>
                    References(ReturnTypeOf(name, j)) = {PlainReference}
              /\ \A k \in 1..Len(Overloads(name)[j].parameters) :
                    Overloads(name)[j].parameters[k] = generator.classname =>
                        References(MethodDeclarations(name)[2 * j].parameters[k].type)
                            = {SelfReference}

\* ---------------------------------------------- the command line, observed
\* the run has failed: the catch block is entered or behind
Failed == cli.pc \in {"catch", "reported"} \/ exit = <<1>>

\* the file of the module of a class is on storage with the whole contents
Saved(name) == WrittenFile(ModuleDeclaration(name)) \in storage.files

C16_Status ==
    /\ exit \in {<<>>, <<0>>, <<1>>}
    /\ exit # <<>> <=> cli.pc = "exited"
    /\ exit = <<1>> => cli.reported
    /\ exit = <<0>> =>
          /\ ~cli.reported
          /\ cli.classname = Len(classnames) + 1
          /\ \A k \in 1..Len(classnames) :
                Includes(resolvedImports, classnames[k]) /\ Saved(classnames[k])

C16_Step ==
    /\ Failed =>
          /\ Failed'
          /\ cli'.classname = cli.classname
          /\ cli'.declaration = cli.declaration
          /\ UNCHANGED <<resolvedImports, declarations, storage>>
    /\ cli'.classname \in {cli.classname, cli.classname + 1}
    /\ cli'.pc = "generate" => cli.pc # "generate" /\ cli'.classname = cli.classname + 1
    /\ cli.reported => cli'.reported
    /\ exit # <<>> => exit' = exit

\* C16: the command ends with status 1, after the error is reported, whenever
\* a step of the handler fails, and with status 0 only when every root class
\* is generated and its module saved; the roots are taken one after the other,
\* each once, and after a failure no root is generated and nothing is saved.
C16_CommandLineRun ==
    /\ []C16_Status
    /\ [][C16_Step]_vars
    /\ Failed ~> (exit = <<1>>)
    /\ <>(exit # <<>>)

\* C16 witness: the second of two roots has failed after the first was saved,
\* the error is reported and the status is 1
C16_Witness ==
    /\ exit = <<1>>
    /\ cli.reported
    /\ Len(classnames) = 2
    /\ cli.classname = 2
    /\ Saved(classnames[1])
    /\ ~Saved(classnames[2])

C17_Order ==
    /\ cli.pc = "generate" => \A k \in 1..Len(resolvedImports) : Saved(resolvedImports[k])
    /\ cli.pc \in {"save", "mkdir", "writeFile"} =>
          \A k \in 1..Len(declarations) : Saved(declarations[k].name) <=> k < cli.declaration

C17_Step ==
    /\ \A file \in storage.files : file.contents # <<>> => file \in storage'.files
    /\ Cardinality(storage'.files \ storage.files) <= 1
    /\ storage'.files # storage.files =>
          /\ cli.pc = "writeFile"
          /\ \A file \in storage'.files \ storage.files :
                file.path = filePath(text(declarations[cli.declaration].name))
    /\ Failed => storage' = storage

\* C17: the files are written one at a time in the order of the list, all of
\* them for one root before the next root is generated; a file written to its
\* end stays on storage with its contents at every later step, a failure
\* included, and after a failure nothing is written.
C17_NoRollback == []C17_Order /\ [][C17_Step]_vars

\* C17 witness: the write of the second of two modules has failed, the command
\* has ended, and the file of the first module is on storage
C17_Witness ==
    /\ exit = <<1>>
    /\ Len(declarations) = 2
    /\ cli.declaration = 2
    /\ Saved(declarations[1].name)
    /\ ~Saved(declarations[2].name)
    /\ \E file \in storage.files : file.contents = <<>>

\* ------------------------------------------------- the fields, observed
\* the place in the answered list of the first field of a name, or of the
\* first public field of a name; 0 when there is none
FirstOfName(name) ==
    LET places == {k \in 1..Len(reflected.getFields) : reflected.getFields[k].name = name}
    IN  IF places = {} THEN 0 ELSE CHOOSE k \in places : \A j \in places : k <= j

FirstPublicOfName(name) ==
    LET places == {k \in 1..Len(reflected.getFields) :
                      /\ reflected.getFields[k].name = name
                      /\ reflected.getFields[k].public}
    IN  IF places = {} THEN 0 ELSE CHOOSE k \in places : \A j \in places : k <= j

\* the place of the field the property of a name follows, when the name has
\* one: the first field of the name if that is public
FirstOfNameIfPublic(name) ==
    IF FirstOfName(name) # 0 /\ reflected.getFields[FirstOfName(name)].public
    THEN FirstOfName(name) ELSE 0

\* the properties are those of the names that have a place, one each, in the
\* order of the places, with the flags of the fields at the places
PropertiesFollow(place) ==
    /\ \A j \in 1..Len(classMembers) :
          /\ classMembers[j].kind = "property"
          /\ Len(classMembers[j].name) = 1
          /\ place[classMembers[j].name[1]] # 0
    /\ \A name \in FieldNamesAnswered :
          place[name] # 0 =>
              \E j \in 1..Len(classMembers) :
                  /\ classMembers[j].name = <<name>>
                  /\ \A i \in 1..Len(classMembers) : classMembers[i].name = <<name>> => i = j
                  /\ "static" \in Range(classMembers[j].modifiers)
                        <=> reflected.getFields[place[name]].isStatic
                  /\ "readonly" \in Range(classMembers[j].modifiers)
                        <=> reflected.getFields[place[name]].isFinal
    /\ \A i, j \in 1..Len(classMembers) :
          i < j => place[classMembers[i].name[1]] < place[classMembers[j].name[1]]

\* C21 as claimed: when convertFields has returned, the properties are one for
\* each name that a public field of the answered list has, in the order of
\* the first public fields of the names and with the static and readonly
\* flags of those fields, and none for a name without a public field.
C21_FirstPublicFieldOfName ==
    phase = "convertMethods" =>
        PropertiesFollow([name \in FieldNamesAnswered |-> FirstPublicOfName(name)])

\* C21 as amended: when convertFields has returned, the properties are one for
\* each name whose first field in the answered list is public, in the order
\* of those fields and with their static and readonly flags, and none for a
\* name whose first field is not public, whatever fields of the name follow.
C21_FirstFieldOfNameIfPublic ==
    phase = "convertMethods" =>
        PropertiesFollow([name \in FieldNamesAnswered |-> FirstOfNameIfPublic(name)])

\* C21 witness: of three fields answered the first two have one name, the
\* first is not public, the second and the third are; the one property is
\* that of the third
C21_Witness ==
    /\ phase = "convertMethods"
    /\ Len(reflected.getFields) = 3
    /\ reflected.getFields[1].name = reflected.getFields[2].name
    /\ reflected.getFields[3].name # reflected.getFields[1].name
    /\ ~reflected.getFields[1].public
    /\ reflected.getFields[2].public
    /\ reflected.getFields[3].public
    /\ Len(classMembers) = 1
    /\ classMembers[1].name = <<reflected.getFields[3].name>>

\* every module of the state
Modules == UNION {Range(list) : list \in Lists}

\* C22: in every module the generators hold or have returned, the import list
\* names no class twice, does not name the class of the module, and names
\* every other class that a type reference of the member signatures names,
\* the classes that were resolved when they were referenced (and so are not
\* generated by this generator) included.
C22_ImportList ==
    \A module \in Modules :
        LET imports == module.contents.imports
        IN  /\ \A j, k \in 1..Len(imports) : imports[j] = imports[k] => j = k
            /\ ~Includes(imports, module.name)
            /\ Range(imports) = Dependencies(module)

\* C22 witness: the run has returned the module of a.B, which imports a.A,
\* the root that was being generated when a.B referenced it, and the module
\* of the root, which imports a.B
C22_Witness ==
    /\ outcome = "returned"
    /\ \E j, k \in 1..Len(result) :
          /\ result[j].name = "a.B"
          /\ result[j].contents.imports = <<"a.A">>
          /\ result[k].name = "a.A"
          /\ Includes(result[k].contents.imports, "a.B")

\* the class names a running generate() call has added to the resolved list so
\* far: its own, which it marked first, and all marked since
AddedSince(classname) ==
    {resolvedImports[k] : k \in Entered(classname)..Len(resolvedImports)}

\* the calls of the progress callback since the generate() of a class began
ProgressSince(classname) ==
    SelectSeq(SubSeq(events, IndexOf(events, <<"resolved", classname>>), Len(events)),
              LAMBDA e : e[1] = "progress")

C23_Returning ==
    Returns =>
        /\ Names(Returned) = AddedSince(Top.classname)
        /\ Len(Returned) = Cardinality(AddedSince(Top.classname))
        /\ Len(ProgressSince(Top.classname)) = (IF progressCallback THEN Len(Returned) ELSE 0)

C23_ReturningAtOnce ==
    (Calling /\ isResolved(resolvedImports, Callee)) =>
        /\ resolvedImports' = resolvedImports
        /\ Len(Progress') = Len(Progress)
        /\ IF outcome = "idle" THEN result' = <<>>
           ELSE stack'[Len(stack')].generated[Len(stack'[Len(stack')].generated)] = <<>>

\* C23: when a generate() call returns, at the root or below it, the names of
\* the modules of the list it returns are the class names it has added to the
\* resolved list, one module each, and the progress callback, when there is
\* one, was called during the call as many times as the list has modules; a
\* call that returns at once adds nothing, returns no module and calls nothing.
C23_ReturnedIsAdded == [][C23_Returning /\ C23_ReturningAtOnce]_vars

\* C23 witness: with a progress callback, a generate() call below the root,
\* entered when the resolved list held the root, has returned two modules
C23_Witness ==
    /\ progressCallback
    /\ Len(stack) = 1
    /\ Len(resolvedImports) = 3
    /\ \E k \in 1..Len(stack[1].generated) : Len(stack[1].generated[k]) = 2

C24_Marked ==
    /\ outcome = "failed" => Includes(resolvedImports, error)
    /\ \A k \in 1..Len(events) : events[k][1] = "resolved" =>
          Includes(resolvedImports, events[k][2])

C24_LaterCall ==
    /\ \A k \in 1..Len(resolvedImports) :
          k <= Len(resolvedImports') /\ resolvedImports'[k] = resolvedImports[k]
    /\ outcome = "failed" =>
          \/ /\ outcome' = "returned"
             /\ result' = <<>>
             /\ error' = ""
             /\ stack' = <<>>
             /\ UNCHANGED <<resolvedImports, events, inflight>>
          \/ /\ outcome' = "running"
             /\ Len(stack') = 1
             /\ ~Includes(resolvedImports, stack'[1].classname)

\* C24: no step takes a name from the resolved list, so when a generate() has
\* rejected, every class it has entered, the class whose import rejected
\* included, is in the list; a generate() called after the failure with the
\* same list either returns the empty list, with no import, no callback and
\* no error, or is for a class the list does not include.
C24_FailureKeepsMarks == []C24_Marked /\ [][C24_LaterCall]_vars

\* C24 witness: after a failure that left three classes in the resolved list
\* and no module, a later generate() for one of them has returned the empty
\* list
C24_Witness ==
    /\ outcome = "returned"
    /\ result = <<>>
    /\ Len(resolvedImports) = 3
    /\ Len(events) = 3 * Len(resolvedImports)

\* ------------------------------------------ interleaved calls, observed
\* the events of a kind for a class, of whatever call
EventsFor(kind, classname) ==
    {k \in 1..Len(events) : events[k][1] = kind /\ events[k][2] = classname}

\* the modules of a class that the calls hold or have returned: what each
\* running generator has in res, and the results
ModulesOf(classname) ==
    LET lists == [call \in Calls |->
                     IF outcome[call] = "returned" THEN result[call]
                     ELSE Flatten([k \in 1..Len(stack[call]) |-> stack[call][k].res])]
    IN  {<<call, k>> \in Calls \X (1..Cardinality(ClassNames)) :
            k <= Len(lists[call]) /\ lists[call][k].name = classname}

\* C25: when generate() calls that share one resolved list interleave at
\* their awaits, every class is marked, imported and reported to the callback
\* at most once over all the calls, and at most one module of it is held or
\* returned by all the calls together.
C25_NoClassByBothCalls ==
    \A classname \in ClassNames :
        /\ Cardinality(EventsFor("resolved", classname)) <= 1
        /\ Cardinality(EventsFor("import", classname)) <= 1
        /\ Cardinality(EventsFor("progress", classname)) <= 1
        /\ Cardinality(ModulesOf(classname)) <= 1

\* C25 witness: two calls for different roots have both returned modules; the
\* second was entered while the first awaited its import, three classes were
\* resolved and the two results hold three modules together
C25_Witness ==
    /\ \A call \in {1, 2} : outcome[call] = "returned" /\ result[call] # <<>>
    /\ events[3][3] = 1
    /\ events[4][3] = 2
    /\ Len(resolvedImports) = 3
    /\ Len(result[1]) + Len(result[2]) = 3

\* ---------------------------------------------------------------------------
\* C26 (CliSpec)

\* the names of the modules in a list of declarations
DeclaredNames(list) == {list[k].name : k \in 1..Len(list)}

\* a file, whole or not, is at the path of the module of a class
AtPathOf(name) == \E file \in storage.files : file.path = filePath(text(name))

C26_Shared ==
    /\ \A j, k \in 1..Len(resolvedImports) : resolvedImports[j] = resolvedImports[k] => j = k
    /\ cli.pc \in {"save", "mkdir", "writeFile"} =>
          /\ \A j, k \in 1..Len(declarations) :
                declarations[j].name = declarations[k].name => j = k
          /\ \A k \in cli.declaration..Len(declarations) : ~AtPathOf(declarations[k].name)
    /\ exit = <<0>> =>
          /\ cli.numResolved = Cardinality(Range(resolvedImports))
          /\ cli.numResolved = Cardinality(storage.files)
          /\ \A name \in Range(resolvedImports) : Saved(name)

C26_Step ==
    /\ cli.pc = "generate" /\ cli'.pc = "save" =>
          /\ DeclaredNames(declarations') = Range(resolvedImports') \ Range(resolvedImports)
          /\ Includes(resolvedImports, classnames[cli.classname]) => declarations' = <<>>
          /\ cli'.numResolved = cli.numResolved + Len(declarations')
    /\ cli'.numResolved # cli.numResolved => cli.pc = "generate" /\ cli'.pc = "save"
    /\ storage'.files # storage.files =>
          \A file \in storage.files : file.path # cli.filePath

\* C26: the roots of one command-line run share one resolved list: a class is
\* in the list once, generate() of a root returns the modules of exactly the
\* classes it added to the list (none for a root or a class an earlier root
\* had reached), no file is written twice, and at status 0 the reported number
\* is the number of distinct classes resolved, each with its file saved.
C26_SharedResolvedList == []C26_Shared /\ [][C26_Step]_vars

\* C26 witness: the run of two different roots has ended with status 0, the
\* second root returned no module since the first had reached it, and three
\* classes are reported and saved
C26_Witness ==
    /\ exit = <<0>>
    /\ Len(classnames) = 2
    /\ classnames[1] # classnames[2]
    /\ declarations = <<>>
    /\ cli.numResolved = 3
    /\ Cardinality(storage.files) = 3

====
